---- MODULE Spec2Model ----
(***************************************************************************)
(* Quiz-variant generation pipeline of hooloovoodoo/ai-quiz:               *)
(*   quiz_generator.py        QuestionGenerator (load, sample, shuffle,    *)
(*                            render, save)                                *)
(*   quiz_generator_batch.py  generate_quiz_variants, list_generated_files,*)
(*                            main (the generation CLI)                    *)
(*   gas_deployer.py          GoogleAppsScriptDeployer.execute_function,   *)
(*                            deploy_and_execute_quiz, extract_form_urls   *)
(*   gas_deployer_batch.py,   deploy_all_quizzes, main (the deployment     *)
(*   deploy_batch.py          CLIs)                                        *)
(*   email_notifier.py        EmailNotifier.send_quiz_notification         *)
(* Strings that the code only copies or compares are TLA+ strings; strings *)
(* that the code matches character by character (file names against a     *)
(* glob pattern) are sequences of one-character strings.                   *)
(***************************************************************************)
EXTENDS Integers, Sequences, FiniteSets, TLC

VARIABLES
    fs,              \* the question collections on disk: path -> file
    loaded,          \* outcome of the last QuestionGenerator.load_questions call
    rng,             \* number of values drawn from the random sequence since random.seed
    questions,       \* convert_format: the questions argument
    shuffle_choices, \* convert_format: the shuffle_choices argument
    js_questions,    \* convert_format: outcome of the call
    file_configs,    \* load_questions_from_multiple_files: the file_configs argument
    assembled,       \* load_questions_from_multiple_files: outcome of the call
    pc,              \* generation CLI: "shell" (no process) or "loop" (in generate_quiz_variants)
    args,            \* generation CLI: the parsed arguments of the current run
    lang_queue,      \* main: the languages still to generate, current one first
    generator,       \* the QuestionGenerator of generate_quiz_variants: language and title
    variant_num,     \* generate_quiz_variants: the loop variable
    generated_files, \* generate_quiz_variants: paths of the variants generated so far
    all_generated_files, \* main: paths returned by the finished generate_quiz_variants calls
    out_dir,         \* the output directory: file name -> script content
    saved,           \* the files save_script wrote during the current run
    exit_code,       \* exit status of the last finished run, -1 before any
    uncaught,        \* the exception that ended the last run, "" if none
    listed,          \* return value of the last list_generated_files call
    rewrites,        \* number of changes other programs made to the collections
    runs,            \* number of CLI runs started
    text,            \* escaping: the free text to embed, character by character
    literal,         \* escaping: the field embedded and the string literal written for it
    work,            \* generate_quiz_from_multiple_files: what the last call did, step by step
    renders,         \* generate_script: the calls made on the pool of the last generation
    history,         \* one entry per QuestionGenerator constructed: the generation calls made on it
    service,         \* GoogleAppsScriptDeployer.service: TRUE once authenticated
    max_retries,     \* execute_function: the max_retries argument
    retry_delay,     \* execute_function: the retry_delay argument
    attempt,         \* execute_function: the loop variable, 0 before the call
    run_calls,       \* execute_function: outcomes of the remote run calls made so far
    slept,           \* execute_function: the arguments of the time.sleep calls that returned
    returned,        \* execute_function: how the call ended and the value it returned
    form,            \* generated script: the points of the items of the form createRandomAIQuiz made
    passingScore,    \* generated script: the passing score createRandomAIQuiz logged
    submission,      \* generated script: what the last onFormSubmit call computed
    step,            \* deploy_and_execute_quiz: the statement the call is at
    remote_calls,    \* deploy_and_execute_quiz: the remote calls made so far, in order
    executions,      \* deploy_and_execute_quiz: the execute_function calls that have returned
    urls,            \* deploy_and_execute_quiz: how the call ended and the pair it returned
    tmp_dir,         \* deployment CLI: the names of the files in /tmp
    cli,             \* deployment CLI: the program run and its parsed arguments
    cli_pc,          \* deployment CLI: the statement the run is at
    cli_listed,      \* deployment CLI: the files the listing logged
    authenticated,   \* deployment CLI: the authenticate_google calls made in the run
    handed,          \* deployment CLI: the arguments of the deploy_batch_quiz_scripts calls
    cli_exit,        \* deployment CLI: how the run ended
    recipients,      \* send_quiz_notification: the recipients argument
    quiz_url,        \* send_quiz_notification: the quiz_url argument
    results,         \* send_quiz_notification: the results dictionary
    attempts,        \* send_quiz_notification: the recipients processed so far, with the outcome
    notification     \* send_quiz_notification: how the call ended

loadVars == <<fs, loaded>>

batchVars == <<pc, args, lang_queue, generator, variant_num, generated_files,
               all_generated_files, out_dir, saved, exit_code, uncaught, listed,
               rewrites, runs>>

assembleVars == <<file_configs, assembled>>

convertVars == <<questions, shuffle_choices, js_questions>>

escapeVars == <<text, literal>>

workVars == <<work, renders>>

deployVars == <<service, max_retries, retry_delay, attempt, run_calls, slept, returned>>

formVars == <<form, passingScore, submission>>

quizDeployVars == <<step, remote_calls, executions, urls>>

cliVars == <<tmp_dir, cli, cli_pc, cli_listed, authenticated, handed, cli_exit>>

mailVars == <<recipients, quiz_url, results, attempts, notification>>

\* The variables of the generated script and of the deployment tools.
serviceVars == <<formVars, quizDeployVars, cliVars, mailVars>>

\* The variables of the escaping, workflow, session and deployer runs.
otherVars == <<escapeVars, workVars, history, deployVars>>

\* The variables of the generator and of execute_function.
coreVars == <<loadVars, rng, convertVars, assembleVars, batchVars, otherVars>>

vars == <<fs, loaded, rng, questions, shuffle_choices, js_questions, file_configs, assembled,
          pc, args, lang_queue, generator, variant_num, generated_files,
          all_generated_files, out_dir, saved, exit_code, uncaught, listed, rewrites, runs,
          text, literal, work, renders, history,
          service, max_retries, retry_delay, attempt, run_calls, slept, returned,
          form, passingScore, submission, step, remote_calls, executions, urls,
          tmp_dir, cli, cli_pc, cli_listed, authenticated, handed, cli_exit,
          recipients, quiz_url, results, attempts, notification>>

(***************************************************************************)
(* Bounds of the model.                                                    *)
(***************************************************************************)
MaxEntries == 2      \* entries of one collection in the loader runs

MaxQuestions == 2    \* questions handed to one convert_format call

MaxCount == 2        \* largest required count of a file configuration

MaxVariants == 2     \* largest --variants argument of a run

MaxBadFiles == 1     \* collections that are not sound when the first run starts

MaxRewrites == 1     \* changes other programs make to the collections

MaxRuns == 2         \* runs of the generation CLI

(***************************************************************************)
(* JSON values as the loader sees them.  An entry of a collection is an    *)
(* object ("dict"), or a non-object: a number / boolean / null ("scalar"), *)
(* a string ("text") or an array ("array").  `has` is the set of required  *)
(* field names for which Python's  field in entry  is true: the keys of an *)
(* object, the names that occur as substrings of a string, the names that  *)
(* are elements of an array.                                               *)
(***************************************************************************)
required_fields == <<"question", "answers", "correct">>

FieldNames == {required_fields[i] : i \in 1..Len(required_fields)}

NoAnswers == [islist |-> FALSE, items |-> <<>>]

ListOf(s) == [islist |-> TRUE, items |-> s]

Entry(type, has, q, answers, correct) ==
    [type |-> type, has |-> has, question |-> q, answers |-> answers, correct |-> correct]

\* The values the `answers` key takes in the loader runs: a string (not a
\* list), and lists of 3, 4 and 5 options.
AnswerValues ==
    { NoAnswers,
      ListOf(<<"a", "b", "c">>),
      ListOf(<<"a", "b", "c", "d">>),
      ListOf(<<"a", "b", "c", "d", "e">>) }

CorrectValues == {"a", "d", "e"}

DictEntries ==
    { Entry("dict", has,
            IF "question" \in has THEN "P" ELSE "",
            IF "answers" \in has THEN a ELSE NoAnswers,
            IF "correct" \in has THEN c ELSE "") :
        has \in SUBSET FieldNames, a \in AnswerValues, c \in CorrectValues }

NonDictEntries ==
    { Entry("scalar", {}, "", NoAnswers, "") }
    \cup { Entry(t, has, "", NoAnswers, "") :
             t \in {"text", "array"}, has \in {{}, FieldNames} }

LoaderEntries == DictEntries \cup NonDictEntries

RECURSIVE SeqsUpTo(_, _)
SeqsUpTo(S, n) ==
    IF n = 0 THEN {<<>>}
    ELSE LET shorter == SeqsUpTo(S, n - 1)
         IN shorter \cup {Append(s, x) : s \in {t \in shorter : Len(t) = n - 1}, x \in S}

\* A file at a path: absent, not JSON, JSON nested deeper than the parser's
\* recursion limit, JSON whose top level is not a list, or a list of entries.
File(kind, items) == [kind |-> kind, items |-> items]

NonListFiles == {File(k, <<>>) : k \in {"missing", "unparseable", "too_deep", "notlist"}}

LoaderFiles == NonListFiles \cup {File("list", s) : s \in SeqsUpTo(LoaderEntries, MaxEntries)}

(***************************************************************************)
(* QuestionGenerator._validate_question: "ok" (True), "skip" (False, with  *)
(* a warning) or "TypeError" (the membership or subscript operation is not *)
(* defined for the entry's type).                                          *)
(***************************************************************************)
InSeq(x, s) == \E i \in 1..Len(s) : s[i] = x

\* The superseded validation rule: at least 2 options instead of exactly 4.
validate_question_min2(question) ==
    IF question.type = "scalar" THEN "TypeError"
    ELSE IF \E i \in 1..Len(required_fields) : required_fields[i] \notin question.has
         THEN "skip"
    ELSE IF question.type # "dict" THEN "TypeError"
    ELSE IF ~question.answers.islist \/ Len(question.answers.items) < 2 THEN "skip"
    ELSE IF ~InSeq(question.correct, question.answers.items) THEN "skip"
    ELSE "ok"

validate_question(question) ==
    IF question.type = "scalar" THEN "TypeError"          \* field in 5
    ELSE IF \E i \in 1..Len(required_fields) : required_fields[i] \notin question.has
         THEN "skip"
    ELSE IF question.type # "dict" THEN "TypeError"       \* "..."['answers']
    ELSE IF ~question.answers.islist \/ Len(question.answers.items) # 4 THEN "skip"
    ELSE IF ~InSeq(question.correct, question.answers.items) THEN "skip"
    ELSE "ok"

(***************************************************************************)
(* QuestionGenerator.load_questions: the outcome is the returned list or   *)
(* the exception that leaves the method.                                   *)
(***************************************************************************)
Outcome(kind, qs) == [kind |-> kind, questions |-> qs]

Raised(kind) == Outcome(kind, <<>>)

NotCalled == Outcome("none", <<>>)

IsValidated(question) == validate_question(question) = "ok"

\* A loader without the isinstance(questions, list) check: a top-level
\* object is iterated like a list and nothing in it validates.
load_questions_no_list_check(file) ==
    CASE file.kind = "missing"     -> Raised("FileNotFoundError")
      [] file.kind = "unparseable" -> Raised("ValueError")
      [] file.kind = "too_deep"    -> Raised("RecursionError")
      [] file.kind = "notlist"     -> Outcome("ok", <<>>)
      [] OTHER ->
            IF \E i \in 1..Len(file.items) : validate_question(file.items[i]) = "TypeError"
            THEN Raised("TypeError")
            ELSE Outcome("ok", SelectSeq(file.items, IsValidated))

load_questions(file) ==
    CASE file.kind = "missing"     -> Raised("FileNotFoundError")
      [] file.kind = "unparseable" -> Raised("ValueError")     \* from JSONDecodeError
      [] file.kind = "too_deep"    -> Raised("RecursionError") \* a RuntimeError: logged, re-raised
      [] file.kind = "notlist"     -> Raised("ValueError")
      [] OTHER ->
            IF \E i \in 1..Len(file.items) : validate_question(file.items[i]) = "TypeError"
            THEN Raised("TypeError")
            ELSE Outcome("ok", SelectSeq(file.items, IsValidated))

(***************************************************************************)
(* Loader runs: one collection at json_path, one call of load_questions.   *)
(***************************************************************************)
json_path == "c.json"

IdleLoad == fs = <<>> /\ loaded = NotCalled

IdleConvert == questions = <<>> /\ shuffle_choices = FALSE /\ js_questions = NotCalled

NotAssembled ==
    [kind |-> "none", questions |-> <<>>, picks |-> <<>>,
     path |-> "", available |-> 0, required |-> 0, draws |-> 0]

IdleAssemble == file_configs = <<>> /\ assembled = NotAssembled

NoArgs == [language |-> "", variants |-> 0, list_files |-> FALSE]

NoGenerator == [language |-> "", title |-> <<>>]

NotListed == [language |-> "", files |-> {}]

IdleBatch ==
    /\ pc = "shell"
    /\ args = NoArgs
    /\ lang_queue = <<>>
    /\ generator = NoGenerator
    /\ variant_num = 0
    /\ generated_files = <<>>
    /\ all_generated_files = <<>>
    /\ out_dir = <<>>
    /\ saved = {}
    /\ exit_code = -1
    /\ uncaught = ""
    /\ listed = NotListed
    /\ rewrites = 0
    /\ runs = 0

NotEmbedded == [field |-> "", chars |-> <<>>]

IdleEscape == text = <<>> /\ literal = NotEmbedded

NoWork ==
    [kind |-> "none", at |-> 0, all_questions |-> <<>>, picks |-> <<>>, records |-> <<>>,
     choices |-> <<>>, script |-> [count |-> 0, title |-> <<>>, questions |-> <<>>]]

IdleWork == work = NoWork /\ renders = <<>>

NotReturned == [how |-> "running", value |-> ""]

IdleDeploy ==
    /\ service = FALSE
    /\ max_retries = 0
    /\ retry_delay = 0
    /\ attempt = 0
    /\ run_calls = <<>>
    /\ slept = <<>>
    /\ returned = NotReturned

NoForm == [created |-> FALSE]

NotSubmitted == [submitted |-> FALSE]

IdleForm ==
    /\ form = NoForm
    /\ passingScore = -1
    /\ submission = NotSubmitted

IdleQuizDeploy ==
    /\ step = ""
    /\ remote_calls = <<>>
    /\ executions = <<>>
    /\ urls = NotReturned

IdleCli ==
    /\ tmp_dir = {}
    /\ cli = NoArgs
    /\ cli_pc = ""
    /\ cli_listed = NotListed
    /\ authenticated = 0
    /\ handed = <<>>
    /\ cli_exit = -1

IdleMail ==
    /\ recipients = <<>>
    /\ quiz_url = ""
    /\ results = <<>>
    /\ attempts = <<>>
    /\ notification = NotReturned

IdleService == IdleForm /\ IdleQuizDeploy /\ IdleCli /\ IdleMail

IdleOther == IdleEscape /\ IdleWork /\ history = <<>> /\ IdleDeploy

InitLoad ==
    /\ fs \in {[p \in {json_path} |-> f] : f \in LoaderFiles}
    /\ loaded = NotCalled
    /\ rng = 0
    /\ IdleConvert
    /\ IdleAssemble
    /\ IdleBatch
    /\ IdleOther
    /\ IdleService

LoadQuestions ==
    /\ loaded = NotCalled
    /\ loaded' = load_questions(fs[json_path])
    /\ UNCHANGED <<serviceVars, otherVars, fs, rng, convertVars, assembleVars, batchVars>>

NextLoad == LoadQuestions

SpecLoad == InitLoad /\ [][NextLoad]_vars

(***************************************************************************)
(* Loader claims.                                                          *)
(***************************************************************************)
\* Validity of a record as the specification words it: the three fields are
\* present, answers is a list of exactly 4 entries, correct is one of them.
IsObject(e) == e.type = "dict"

ValidRecord(e) ==
    /\ IsObject(e)
    /\ {"question", "answers", "correct"} \subseteq e.has
    /\ e.answers.islist
    /\ Len(e.answers.items) = 4
    /\ e.correct \in {e.answers.items[i] : i \in 1..Len(e.answers.items)}

LoadedList == loaded # NotCalled /\ fs[json_path].kind = "list"

\* C2: on a collection whose top level is a list, what load_questions
\* returns is exactly the subsequence of valid records in their original
\* order, and it does return when every entry is an object.
C2_LoadReturnsValidSubsequence ==
    LoadedList =>
        /\ loaded.kind = "ok" =>
               loaded.questions = SelectSeq(fs[json_path].items, ValidRecord)
        /\ (\A i \in 1..Len(fs[json_path].items) : IsObject(fs[json_path].items[i]))
               => loaded.kind = "ok"

\* C2 witness: an invalid record followed by a valid one, the valid one kept.
C2_Witness ==
    /\ LoadedList
    /\ loaded.kind = "ok"
    /\ Len(fs[json_path].items) = 2
    /\ IsObject(fs[json_path].items[1])
    /\ ~ValidRecord(fs[json_path].items[1])
    /\ loaded.questions = <<fs[json_path].items[2]>>

\* C3: for every collection whose top level is a list, load_questions
\* returns and raises nothing, whatever the entries are.
C3_LoadNeverFailsOnEntries ==
    LoadedList => loaded.kind = "ok"

\* C4: a missing collection fails with the not-found error, a top level
\* that is not a list or does not parse fails with the malformed-input
\* error, and in both cases no record list is returned.
C4_TopLevelErrors ==
    loaded # NotCalled =>
        /\ fs[json_path].kind = "missing" => loaded = Raised("FileNotFoundError")
        /\ fs[json_path].kind \in {"notlist", "unparseable"} => loaded = Raised("ValueError")

\* C4 witness: the call on a top-level object ended in the malformed-input error.
C4_Witness ==
    /\ fs[json_path].kind = "notlist"
    /\ loaded.kind = "ValueError"

(***************************************************************************)
(* The random module as the generator uses it.  `raw` is the sequence of   *)
(* values the process-wide generator yields from its current position on;  *)
(* the k-th bounded draw of a call is raw[k] reduced to its range.         *)
(***************************************************************************)
randbelow(raw, k, n) == raw[k] % n

\* An exchange that forgets to store the element it overwrites.
Swap_overwriting(x, i, j) == [x EXCEPT ![i] = x[j]]

Swap(x, i, j) == [x EXCEPT ![i] = x[j], ![j] = x[i]]

\* random.shuffle(x): for i in reversed(range(1, len(x))):
\*     j = randbelow(i + 1); x[i], x[j] = x[j], x[i]
\* k counts the draws of this call; positions are 1-based here.
RECURSIVE shuffle_from(_, _, _, _)
shuffle_from(x, raw, at, k) ==
    IF k > Len(x) - 1 THEN x
    ELSE LET i == Len(x) - k + 1
             j == randbelow(raw, at + k, i) + 1
         IN shuffle_from(Swap(x, i, j), raw, at, k + 1)

\* A reordering that fills every position with an independently drawn
\* element (random.choices): elements can repeat and get lost.
shuffle_by_choices(x, raw, at) ==
    [i \in 1..Len(x) |-> x[randbelow(raw, at + i, Len(x)) + 1]]

shuffle(x, raw, at) == shuffle_from(x, raw, at, 1)

shuffle_draws(n) == IF n > 1 THEN n - 1 ELSE 0

\* The range of each draw of one shuffle of n items: n, n-1, ..., 2.
shuffle_limits(n) == [k \in 1..shuffle_draws(n) |-> n - k + 1]

\* Every sequence of values a generator can yield for draws with these ranges.
RECURSIVE DrawsWithin(_)
DrawsWithin(limits) ==
    IF limits = <<>> THEN {<<>>}
    ELSE {<<v>> \o rest : v \in 0..(Head(limits) - 1), rest \in DrawsWithin(Tail(limits))}

(***************************************************************************)
(* QuestionGenerator.convert_format.                                       *)
(***************************************************************************)
\* list.index: 0-based position of the first equal element, -1 for the
\* ValueError raised when there is none.
\* A lookup that counts positions from 1.
index_from_one(s, x) ==
    IF InSeq(x, s)
    THEN CHOOSE i \in 1..Len(s) : s[i] = x /\ \A j \in 1..(i - 1) : s[j] # x
    ELSE -1

index(s, x) ==
    IF InSeq(x, s)
    THEN (CHOOSE i \in 1..Len(s) : s[i] = x /\ \A j \in 1..(i - 1) : s[j] # x) - 1
    ELSE -1

js_question(q, choices, correct_index) ==
    [question |-> q, choices |-> choices, correct |-> correct_index]

\* A converter that keeps the index the correct answer had before the shuffle.
convert_one_stale_index(question, shuffled, raw, at) ==
    LET choices == IF shuffled THEN shuffle(question.answers.items, raw, at)
                   ELSE question.answers.items
    IN js_question(question.question, choices,
                   index(question.answers.items, question.correct))

\* The loop body: copy the answers, shuffle the copy when asked, look the
\* correct answer up in the result.
convert_one(question, shuffled, raw, at) ==
    LET choices == IF shuffled THEN shuffle(question.answers.items, raw, at)
                   ELSE question.answers.items
    IN js_question(question.question, choices, index(choices, question.correct))

convert_draws(qs, shuffled) ==
    IF shuffled /\ qs # <<>> THEN shuffle_draws(Len(Head(qs).answers.items)) ELSE 0

RECURSIVE convert_from(_, _, _, _)
convert_from(qs, shuffled, raw, at) ==
    IF qs = <<>> THEN <<>>
    ELSE <<convert_one(Head(qs), shuffled, raw, at)>>
         \o convert_from(Tail(qs), shuffled, raw, at + convert_draws(qs, shuffled))

\* The outcome of convert_format: the list, or the ValueError of list.index.
convert_format(qs, shuffled, raw, at) ==
    LET out == convert_from(qs, shuffled, raw, at)
    IN IF \E i \in 1..Len(out) : out[i].correct = -1
       THEN Raised("ValueError")
       ELSE Outcome("ok", out)

RECURSIVE convert_limits(_, _)
convert_limits(qs, shuffled) ==
    IF qs = <<>> \/ ~shuffled THEN <<>>
    ELSE shuffle_limits(Len(Head(qs).answers.items)) \o convert_limits(Tail(qs), shuffled)

(***************************************************************************)
(* Converter runs: one call of convert_format on validated questions, the  *)
(* generator yielding any values.                                          *)
(***************************************************************************)
Question(q, answers, correct) ==
    Entry("dict", FieldNames, q, ListOf(answers), correct)

ValidQuestions ==
    { Question("P1", <<"a", "b", "c", "d">>, "b"),
      Question("P2", <<"w", "x", "y", "z">>, "z"),
      Question("P3", <<"x", "y", "x", "z">>, "x") }

InitConvert ==
    /\ questions \in SeqsUpTo(ValidQuestions, MaxQuestions)
    /\ shuffle_choices \in BOOLEAN
    /\ js_questions = NotCalled
    /\ rng = 0
    /\ IdleLoad
    /\ IdleAssemble
    /\ IdleBatch
    /\ IdleOther
    /\ IdleService

ConvertFormat ==
    /\ js_questions = NotCalled
    /\ \E raw \in DrawsWithin(convert_limits(questions, shuffle_choices)) :
          /\ js_questions' = convert_format(questions, shuffle_choices, raw, 0)
          /\ rng' = rng + Len(raw)
    /\ UNCHANGED <<serviceVars, otherVars, loadVars, questions, shuffle_choices, assembleVars, batchVars>>

NextConvert == ConvertFormat

SpecConvert == InitConvert /\ [][NextConvert]_vars

(***************************************************************************)
(* Converter claims.                                                       *)
(***************************************************************************)
\* C1: for validated questions and either value of shuffle_choices, every
\* produced question has correct inside choices, choices[correct] equal to
\* the original correct string, and as many choices as original answers.
C1_CorrectIndexTracksAnswer ==
    js_questions # NotCalled =>
        /\ js_questions.kind = "ok"
        /\ Len(js_questions.questions) = Len(questions)
        /\ \A i \in 1..Len(questions) :
              LET out == js_questions.questions[i]
              IN /\ out.correct \in 0..(Len(out.choices) - 1)
                 /\ out.choices[out.correct + 1] = questions[i].correct
                 /\ Len(out.choices) = Len(questions[i].answers.items)

\* C1 witness: a shuffled conversion that moved the correct answer.
C1_Witness ==
    /\ js_questions.kind = "ok"
    /\ shuffle_choices
    /\ Len(questions) = 2
    /\ js_questions.questions[1].correct # index(questions[1].answers.items, questions[1].correct)
    /\ js_questions.questions[2].choices # questions[2].answers.items

\* Number of positions of s that hold x.
Occurrences(s, x) == Cardinality({i \in 1..Len(s) : s[i] = x})

SameMultiset(s, t) ==
    /\ Len(s) = Len(t)
    /\ \A i \in 1..Len(s) : Occurrences(s, s[i]) = Occurrences(t, s[i])

\* C15: convert_format returns one output per input question in the same
\* order; the i-th output carries the i-th input's prompt unchanged and its
\* choices are a permutation (same multiset) of the i-th input's answers.
C15_OutputsFollowInputs ==
    js_questions # NotCalled =>
        /\ js_questions.kind = "ok"
        /\ Len(js_questions.questions) = Len(questions)
        /\ \A i \in 1..Len(questions) :
              /\ js_questions.questions[i].question = questions[i].question
              /\ SameMultiset(js_questions.questions[i].choices, questions[i].answers.items)

\* C15 witness: two different questions converted with shuffling, the one
\* with a repeated option among them, both with their choices reordered.
C15_Witness ==
    /\ js_questions.kind = "ok"
    /\ shuffle_choices
    /\ Len(questions) = 2
    /\ questions[1].question = "P3"
    /\ questions[2].question = "P1"
    /\ js_questions.questions[1].question = "P3"
    /\ js_questions.questions[1].choices = <<"z", "x", "y", "x">>
    /\ js_questions.questions[2].choices # questions[2].answers.items

\* C16: with shuffle_choices = false every output has the answers in their
\* original order and correct equal to the position of the correct string in
\* that order, and the call draws nothing from the random sequence.
C16_UnshuffledKeepsOrder ==
    (js_questions # NotCalled /\ ~shuffle_choices) =>
        /\ js_questions.kind = "ok"
        /\ Len(js_questions.questions) = Len(questions)
        /\ \A i \in 1..Len(questions) :
              LET out == js_questions.questions[i]
                  answers == questions[i].answers.items
              IN /\ out.choices = answers
                 /\ out.correct \in 0..(Len(answers) - 1)
                 /\ answers[out.correct + 1] = questions[i].correct
                 /\ \A j \in 1..out.correct : answers[j] # questions[i].correct
        /\ rng = 0

\* C16 witness: answers a,b,c,d with correct b give index 1, and w,x,y,z
\* with correct z give index 3.
C16_Witness ==
    /\ ~shuffle_choices
    /\ questions = <<Question("P1", <<"a", "b", "c", "d">>, "b"),
                     Question("P2", <<"w", "x", "y", "z">>, "z")>>
    /\ js_questions =
          Outcome("ok", <<js_question("P1", <<"a", "b", "c", "d">>, 1),
                          js_question("P2", <<"w", "x", "y", "z">>, 3)>>)
    /\ rng = 0

(***************************************************************************)
(* random.sample(population, k) for the population sizes of the model      *)
(* (the pool branch of the library):                                       *)
(*     pool = list(population)                                             *)
(*     for i in range(k):                                                  *)
(*         j = randbelow(n - i); result[i] = pool[j]; pool[j] = pool[n-i-1]*)
(* sample_positions yields the positions of the population that are        *)
(* selected, in selection order; sample yields the elements there.         *)
(***************************************************************************)
RECURSIVE sample_from(_, _, _, _, _)
sample_from(pool, k, raw, at, i) ==
    IF i > k THEN <<>>
    ELSE LET n == Len(pool)
             j == randbelow(raw, at + i, n - (i - 1)) + 1
         IN <<pool[j]>> \o sample_from([pool EXCEPT ![j] = pool[n - (i - 1)]], k, raw, at, i + 1)

\* A sampler that draws every element from the whole population (with replacement).
sample_positions_with_replacement(n, k, raw, at) ==
    [i \in 1..k |-> randbelow(raw, at + i, n) + 1]

sample_positions(n, k, raw, at) == sample_from([p \in 1..n |-> p], k, raw, at, 1)

sample(population, k, raw, at) ==
    LET picks == sample_positions(Len(population), k, raw, at)
    IN [i \in 1..k |-> population[picks[i]]]

sample_limits(n, k) == [i \in 1..k |-> n - (i - 1)]

(***************************************************************************)
(* QuestionGenerator.load_questions_from_multiple_files.  The outcome      *)
(* carries the returned list (and, per configuration, the positions of the *)
(* valid list that were selected), or the exception: the one load_questions*)
(* raised, or the ValueError whose message names the file path, the number *)
(* of questions it has and the number required.                            *)
(***************************************************************************)
Assembled(kind, qs, picks, path, available, required, draws) ==
    [kind |-> kind, questions |-> qs, picks |-> picks,
     path |-> path, available |-> available, required |-> required, draws |-> draws]

\* A check that lets a collection through when it has one question too few.
enough_questions_off_by_one(file_questions, required_count) ==
    ~(Len(file_questions) + 1 < required_count)

enough_questions(file_questions, required_count) ==
    ~(Len(file_questions) < required_count)

RECURSIVE assemble_from(_, _, _, _, _, _)
assemble_from(fsys, configs, raw, at, all_questions, picks) ==
    IF configs = <<>> THEN Assembled("ok", all_questions, picks, "", 0, 0, at)
    ELSE LET file_path == Head(configs).path
             required_count == Head(configs).count
             file_questions == load_questions(fsys[file_path])
         IN IF file_questions.kind # "ok"
            THEN Assembled(file_questions.kind, <<>>, <<>>, "", 0, 0, at)
            ELSE IF ~enough_questions(file_questions.questions, required_count)
            THEN Assembled("ValueError", <<>>, <<>>, file_path,
                           Len(file_questions.questions), required_count, at)
            ELSE IF required_count > Len(file_questions.questions)
            THEN Assembled("ValueError", <<>>, <<>>, "", 0, 0, at)  \* random.sample: k > n
            ELSE LET n == Len(file_questions.questions)
                     selected == sample_positions(n, required_count, raw, at)
                 IN assemble_from(fsys, Tail(configs), raw, at + required_count,
                        all_questions \o [i \in 1..required_count |->
                                             file_questions.questions[selected[i]]],
                        Append(picks, selected))

load_questions_from_multiple_files(fsys, configs, raw, at) ==
    assemble_from(fsys, configs, raw, at, <<>>, <<>>)

\* The range of each draw the call makes, in order.
RECURSIVE assemble_limits(_, _)
assemble_limits(fsys, configs) ==
    IF configs = <<>> THEN <<>>
    ELSE LET file_questions == load_questions(fsys[Head(configs).path])
             n == Len(file_questions.questions)
         IN IF file_questions.kind # "ok" \/ n < Head(configs).count THEN <<>>
            ELSE sample_limits(n, Head(configs).count)
                 \o assemble_limits(fsys, Tail(configs))

(***************************************************************************)
(* Assembler runs: two collections, one call of                            *)
(* load_questions_from_multiple_files, the generator yielding any values.  *)
(***************************************************************************)
AssemblePaths == {"A.json", "B.json"}

InvalidEntry == Entry("dict", {"question", "answers"}, "P", ListOf(<<"a", "b", "c", "d">>), "")

ScalarEntry == Entry("scalar", {}, "", NoAnswers, "")

AssembleEntries ==
    { Question("P1", <<"a", "b", "c", "d">>, "b"),
      Question("P2", <<"w", "x", "y", "z">>, "z"),
      InvalidEntry }

AssembleFiles ==
    {File("missing", <<>>), File("notlist", <<>>), File("list", <<ScalarEntry>>)}
    \cup {File("list", s) : s \in SeqsUpTo(AssembleEntries, MaxEntries)}

Config(path, count) == [path |-> path, count |-> count]

\* Configurations over distinct collections, in either order.
AssembleConfigs ==
    {<<>>}
    \cup {<<Config(p, c)>> : p \in AssemblePaths, c \in 0..MaxCount}
    \cup {<<Config(pq[1], c), Config(pq[2], d)>> :
             pq \in {x \in AssemblePaths \X AssemblePaths : x[1] # x[2]},
             c \in 0..MaxCount, d \in 0..MaxCount}

InitAssemble ==
    /\ fs \in [AssemblePaths -> AssembleFiles]
    /\ file_configs \in AssembleConfigs
    /\ assembled = NotAssembled
    /\ loaded = NotCalled
    /\ rng = 0
    /\ IdleConvert
    /\ IdleBatch
    /\ IdleOther
    /\ IdleService

LoadQuestionsFromMultipleFiles ==
    /\ assembled = NotAssembled
    /\ \E raw \in DrawsWithin(assemble_limits(fs, file_configs)) :
          /\ assembled' = load_questions_from_multiple_files(fs, file_configs, raw, 0)
          /\ rng' = rng + assembled'.draws
    /\ UNCHANGED <<serviceVars, otherVars, loadVars, convertVars, file_configs, batchVars>>

NextAssemble == LoadQuestionsFromMultipleFiles

SpecAssemble == InitAssemble /\ [][NextAssemble]_vars

(***************************************************************************)
(* Assembler claims.                                                       *)
(***************************************************************************)
\* A collection as the data model describes it: a list of objects.
WellFormedCollection(file) ==
    /\ file.kind = "list"
    /\ \A i \in 1..Len(file.items) : IsObject(file.items[i])

ValidList(file) == SelectSeq(file.items, ValidRecord)

RECURSIVE SumCounts(_, _)
SumCounts(configs, upto) ==
    IF upto = 0 THEN 0 ELSE SumCounts(configs, upto - 1) + configs[upto].count

AssembledAll ==
    /\ assembled # NotAssembled
    /\ \A i \in 1..Len(file_configs) : WellFormedCollection(fs[file_configs[i].path])

\* C5: when every collection has at least its required count of valid
\* records, the call returns exactly sum(count) records, and the records
\* drawn from one collection sit at pairwise distinct positions of that
\* collection's valid list.
C5_CountLawWithoutReplacement ==
    (/\ AssembledAll
     /\ \A i \in 1..Len(file_configs) :
           Len(ValidList(fs[file_configs[i].path])) >= file_configs[i].count)
    => /\ assembled.kind = "ok"
       /\ Len(assembled.questions) = SumCounts(file_configs, Len(file_configs))
       /\ Len(assembled.picks) = Len(file_configs)
       /\ \A i \in 1..Len(file_configs) :
             LET valid == ValidList(fs[file_configs[i].path])
                 drawn == assembled.picks[i]
                 before == SumCounts(file_configs, i - 1)
             IN /\ Len(drawn) = file_configs[i].count
                /\ \A j \in 1..Len(drawn) :
                      /\ drawn[j] \in 1..Len(valid)
                      /\ assembled.questions[before + j] = valid[drawn[j]]
                /\ \A j, k \in 1..Len(drawn) : j # k => drawn[j] # drawn[k]

\* C5 witness: two collections, two records drawn from each.
C5_Witness ==
    /\ assembled.kind = "ok"
    /\ Len(file_configs) = 2
    /\ file_configs[1].count = 2
    /\ file_configs[2].count = 2
    /\ Len(assembled.questions) = 4
    /\ assembled.questions[1] # assembled.questions[2]

\* C6: when some collection has fewer valid records than its required
\* count, the call raises the insufficient-questions error naming such a
\* collection, its available count and the required count, and returns no
\* list.
C6_InsufficientQuestionsNamed ==
    (/\ AssembledAll
     /\ \E i \in 1..Len(file_configs) :
           Len(ValidList(fs[file_configs[i].path])) < file_configs[i].count)
    => /\ assembled.kind = "ValueError"
       /\ assembled.questions = <<>>
       /\ \E i \in 1..Len(file_configs) :
             /\ assembled.path = file_configs[i].path
             /\ assembled.available = Len(ValidList(fs[file_configs[i].path]))
             /\ assembled.required = file_configs[i].count
             /\ assembled.available < assembled.required

\* C6 witness: the first collection was sampled, the second has one valid
\* record where two are required.
C6_Witness ==
    /\ assembled.kind = "ValueError"
    /\ Len(file_configs) = 2
    /\ file_configs[1].count = 1
    /\ assembled.draws = 1
    /\ assembled.path = file_configs[2].path
    /\ assembled.available = 1
    /\ assembled.required = 2

(***************************************************************************)
(* File names and glob patterns, character by character.                   *)
(***************************************************************************)
\* str(n) for n >= 0.
Digit(d) == <<"0", "1", "2", "3", "4", "5", "6", "7", "8", "9">>[d + 1]

RECURSIVE str(_)
str(n) == IF n < 10 THEN <<Digit(n)>> ELSE str(n \div 10) \o <<Digit(n % 10)>>

\* The characters of a language code.
lang_chars(language) ==
    CASE language = "ENG" -> <<"E", "N", "G">>
      [] language = "SRB" -> <<"S", "R", "B">>
      [] language = "BOTH" -> <<"B", "O", "T", "H">>

\* datetime.now().strftime("%Y-%m-%d") on the day of the run.
current_date == <<"2", "0", "2", "5", "-", "0", "9", "-", "0", "8">>

\* A file name without the language tag.
quiz_filename_without_language(language, n) ==
    <<"A", "I", " ", "F", "u", "n", "d", "a", "m", "e", "n", "t", "a", "l", "s", " ", "|", " ">>
    \o current_date \o <<" ", "|", " ">> \o <<"V", "a", "r", "i", "a", "n", "t", " ">>
    \o str(n) \o <<".", "g", "s">>

\* f"AI Fundamentals | {current_date} | [{language}] | Variant {variant_num}.gs"
quiz_filename(language, n) ==
    <<"A", "I", " ", "F", "u", "n", "d", "a", "m", "e", "n", "t", "a", "l", "s", " ", "|", " ">> \o current_date \o <<" ", "|", " ", "[">> \o lang_chars(language)
    \o <<"]", " ", "|", " ">> \o <<"V", "a", "r", "i", "a", "n", "t", " ">> \o str(n) \o <<".", "g", "s">>

\* The patterns of list_generated_files; None is the absent language.
None == "None"

list_pattern(language) ==
    IF language = None
    THEN <<"A", "I", " ", "F", "u", "n", "d", "a", "m", "e", "n", "t", "a", "l", "s", " ", "|", " ">> \o <<"*", " ", "|", " ", "*", ".", "g", "s">>
    ELSE <<"A", "I", " ", "F", "u", "n", "d", "a", "m", "e", "n", "t", "a", "l", "s", " ", "|", " ">> \o <<"*", " ", "|", " ", "[">> \o lang_chars(language)
         \o <<"]", " ", "|", " ", "*", ".", "g", "s">>

(***************************************************************************)
(* Path.glob on one directory level matches a name against the pattern as  *)
(* fnmatch translates it: * is any run of characters, ? any character,     *)
(* [seq] any one character of seq ([!seq]: any character not in seq), a [  *)
(* without a closing ] and every other character stand for themselves.     *)
(* Ranges (a-z) do not occur in the patterns of the program.               *)
(***************************************************************************)
\* Position of the ] closing the class opened at i, 0 when there is none.
RECURSIVE class_scan(_, _)
class_scan(pat, j) ==
    IF j > Len(pat) THEN 0 ELSE IF pat[j] = "]" THEN j ELSE class_scan(pat, j + 1)

class_end(pat, i) ==
    LET j1 == IF i + 1 <= Len(pat) /\ pat[i + 1] = "!" THEN i + 2 ELSE i + 1
        j2 == IF j1 <= Len(pat) /\ pat[j1] = "]" THEN j1 + 1 ELSE j1
    IN class_scan(pat, j2)

class_matches(pat, i, close, c) ==
    IF pat[i + 1] = "!"
    THEN \A k \in (i + 2)..(close - 1) : pat[k] # c
    ELSE \E k \in (i + 1)..(close - 1) : pat[k] = c

\* Does name[n..] match pat[i..]?
RECURSIVE fnmatch_from(_, _, _, _)
fnmatch_from(name, n, pat, i) ==
    IF i > Len(pat) THEN n > Len(name)
    ELSE IF pat[i] = "*"
         THEN \E m \in n..(Len(name) + 1) : fnmatch_from(name, m, pat, i + 1)
    ELSE IF n > Len(name) THEN FALSE
    ELSE IF pat[i] = "?" THEN fnmatch_from(name, n + 1, pat, i + 1)
    ELSE IF pat[i] = "[" /\ class_end(pat, i) # 0
         THEN /\ class_matches(pat, i, class_end(pat, i), name[n])
              /\ fnmatch_from(name, n + 1, pat, class_end(pat, i) + 1)
    ELSE name[n] = pat[i] /\ fnmatch_from(name, n + 1, pat, i + 1)

fnmatch(name, pat) == fnmatch_from(name, 1, pat, 1)

\* list(Path(output_dir).glob(pattern)): the names in the directory that match.
glob(names, pat) == {name \in names : fnmatch(name, pat)}

(***************************************************************************)
(* The process-wide random generator.  random.seed(Seed) rewinds it; the   *)
(* k-th value it yields after that is a fixed function of Seed and k (the  *)
(* function below stands for the library's generator: only its being a     *)
(* function of the seed and the position matters).  rng is the number of   *)
(* values consumed since the last random.seed.                             *)
(***************************************************************************)
Seed == 42

random_value(k) == ((Seed + k) * (Seed + k) * 31 + k * 17) % 1009

\* The values the generator yields from position `at` on.
random_from(at) == [k \in Nat |-> random_value(at + k)]

\* A seeding that has no effect.
seed_ignored(a) == rng

\* A seeding that takes effect for the first generator of a process only.
seed_first_generator_only(a) == IF generator = NoGenerator THEN 0 ELSE rng

\* random.seed(a): the position of the sequence fixed by Seed afterwards.
seed(a) == 0

(***************************************************************************)
(* QuestionGenerator: construction, file configurations, rendering and the *)
(* generation workflow.                                                    *)
(***************************************************************************)
upper(language) ==
    CASE language = "eng" -> "ENG"
      [] language = "srb" -> "SRB"
      [] OTHER -> language

\* QuestionGenerator.__init__ (which also calls random.seed(Seed)).
new_generator(language) == [language |-> upper(language), title |-> <<"AI Citizen">>]

Modules == {1, 2, 3}

config_path(language, m) ==
    CASE language = "ENG" /\ m = 1 -> "QAPool/eng/L0/M1/m1.json"
      [] language = "ENG" /\ m = 2 -> "QAPool/eng/L0/M2/m2.json"
      [] language = "ENG" /\ m = 3 -> "QAPool/eng/L0/M3/m3.json"
      [] language = "SRB" /\ m = 1 -> "QAPool/srb/L0/M1/m1.json"
      [] language = "SRB" /\ m = 2 -> "QAPool/srb/L0/M2/m2.json"
      [] language = "SRB" /\ m = 3 -> "QAPool/srb/L0/M3/m3.json"

SupportedLanguages == {"ENG", "SRB"}

\* get_file_configs_for_language: raises ValueError for any other language.
get_file_configs_for_language(language) ==
    IF upper(language) \in SupportedLanguages
    THEN [kind |-> "ok",
          configs |-> [m \in 1..3 |-> Config(config_path(upper(language), m), 1)]]
    ELSE [kind |-> "ValueError", configs |-> <<>>]

\* f"[{self.language}]" and f"{original_title} {language_tag}", as pieces.
language_tag(language) == <<"[", language, "]">>

tagged_title(title, language) == title \o <<" ">> \o language_tag(language)

\* What generate_script embeds from its inputs: the number of questions,
\* the generator's title and the question pool.
NoScript == [count |-> 0, title |-> <<>>, questions |-> <<>>]

\* A renderer that numbers the scripts it has rendered.
generate_script_numbered(gen, qs) ==
    [count |-> Len(qs) + Len(renders), title |-> gen.title, questions |-> qs]

generate_script(gen, qs) == [count |-> Len(qs), title |-> gen.title, questions |-> qs]

Generation(kind, gen, script, draws) ==
    [kind |-> kind, generator |-> gen, script |-> script, draws |-> draws]

\* generate_quiz_from_multiple_files: tag the title, load, convert, shuffle
\* the pool, render, save, restore the title.  An exception leaves the
\* method where it is raised (the except clause logs RuntimeError and
\* re-raises it).
generate_quiz_from_multiple_files(gen, fsys, configs, at) ==
    LET original_title == gen.title
        tagged == [gen EXCEPT !.title = tagged_title(original_title, gen.language)]
        raw == random_from(at)
        all_questions == load_questions_from_multiple_files(fsys, configs, raw, 0)
        converted == convert_format(all_questions.questions, TRUE, raw, all_questions.draws)
        d2 == all_questions.draws + Len(convert_limits(all_questions.questions, TRUE))
        merged == shuffle(converted.questions, raw, d2)
        d3 == d2 + shuffle_draws(Len(converted.questions))
    IN IF all_questions.kind # "ok"
       THEN Generation(all_questions.kind, tagged, NoScript, all_questions.draws)
       ELSE IF converted.kind # "ok"
       THEN Generation(converted.kind, tagged, NoScript, d2)
       ELSE Generation("ok", [tagged EXCEPT !.title = original_title],
                       generate_script(tagged, merged), d3)

\* generate_quiz_for_language with an explicit output_path.
generate_quiz_for_language(gen, language, fsys, at) ==
    LET g == [gen EXCEPT !.language = upper(language)]
        file_configs_ == get_file_configs_for_language(language)
    IN IF file_configs_.kind # "ok"
       THEN Generation(file_configs_.kind, g, NoScript, 0)
       ELSE generate_quiz_from_multiple_files(g, fsys, file_configs_.configs, at)

\* list_generated_files(output_dir, language): the matching names.
list_generated_files(dir, language) ==
    glob(DOMAIN dir, list_pattern(IF language = None THEN None ELSE upper(language)))

(***************************************************************************)
(* Runs of the generation CLI (quiz_generator_batch.py).  The collections  *)
(* of both languages are on disk; another program may change one between   *)
(* two steps of a run.  A run is main(): it lists, rejects the arguments,  *)
(* or calls generate_quiz_variants once per language; each pass of the     *)
(* variant loop is one step.                                               *)
(***************************************************************************)
GoodFile(m) ==
    CASE m = 1 -> File("list", <<Question("M1-a", <<"a", "b", "c", "d">>, "b"),
                                 Question("M1-b", <<"w", "x", "y", "z">>, "z")>>)
      [] m = 2 -> File("list", <<Question("M2-a", <<"a", "b", "c", "d">>, "a"),
                                 Question("M2-b", <<"w", "x", "y", "z">>, "w")>>)
      [] m = 3 -> File("list", <<Question("M3-a", <<"a", "b", "c", "d">>, "d"),
                                 Question("M3-b", <<"x", "y", "x", "z">>, "x")>>)

BadFiles ==
    { File("missing", <<>>),
      File("notlist", <<>>),
      File("too_deep", <<>>),
      File("list", <<InvalidEntry>>),
      File("list", <<ScalarEntry>>) }

BatchPaths == {config_path(l, m) : l \in SupportedLanguages, m \in Modules}

GoodFs == [p \in BatchPaths |->
             GoodFile(CHOOSE m \in Modules : \E l \in SupportedLanguages : p = config_path(l, m))]

BatchFs ==
    {f \in [BatchPaths -> BadFiles \cup {GoodFs[p] : p \in BatchPaths}] :
        /\ \A p \in BatchPaths : f[p] \in BadFiles \cup {GoodFs[p]}
        /\ Cardinality({p \in BatchPaths : f[p] # GoodFs[p]}) <= MaxBadFiles}

InitBatch ==
    /\ fs \in BatchFs
    /\ loaded = NotCalled
    /\ rng = 0
    /\ IdleConvert
    /\ IdleAssemble
    /\ IdleBatch
    /\ IdleOther
    /\ IdleService

\* Another program replaces one collection.
EnvRewrite ==
    /\ rewrites < MaxRewrites
    /\ rewrites' = rewrites + 1
    /\ \E p \in BatchPaths : \E f \in (BadFiles \cup {GoodFs[p]}) \ {fs[p]} :
          fs' = [fs EXCEPT ![p] = f]
    /\ UNCHANGED <<serviceVars, otherVars, loaded, rng, convertVars, assembleVars, pc, args, lang_queue, generator,
                   variant_num, generated_files, all_generated_files, out_dir, saved,
                   exit_code, uncaught, listed, runs>>

Arguments(language, variants, list_files) ==
    [language |-> language, variants |-> variants, list_files |-> list_files]

Listing(language, files) == [language |-> language, files |-> files]

\* main with --list-files: list and return 0.
MainListFiles ==
    /\ pc = "shell"
    /\ runs < MaxRuns
    /\ \E language \in {"ENG", "SRB", "BOTH"}, variants \in 0..MaxVariants :
          LET filter == IF language # "BOTH" THEN language ELSE None
          IN /\ args' = Arguments(language, variants, TRUE)
             /\ listed' = Listing(filter, list_generated_files(out_dir, filter))
    /\ runs' = runs + 1
    /\ saved' = {}
    /\ uncaught' = ""
    /\ exit_code' = 0
    /\ UNCHANGED <<serviceVars, otherVars, loadVars, rng, convertVars, assembleVars, pc, lang_queue, generator,
                   variant_num, generated_files, all_generated_files, out_dir, rewrites>>

\* main with a variant count that is not positive: return 1.
MainRejectVariants ==
    /\ pc = "shell"
    /\ runs < MaxRuns
    /\ \E language \in {"ENG", "SRB", "BOTH"} :
          args' = Arguments(language, 0, FALSE)
    /\ runs' = runs + 1
    /\ saved' = {}
    /\ uncaught' = ""
    /\ exit_code' = 1
    /\ UNCHANGED <<serviceVars, otherVars, loadVars, rng, convertVars, assembleVars, pc, lang_queue, generator,
                   variant_num, generated_files, all_generated_files, out_dir, listed,
                   rewrites>>

\* main with a positive variant count, up to the first pass of the loop
\* of the first generate_quiz_variants call (which constructs the
\* generator and so rewinds the random generator).
MainGenerateWith(counts) ==
    /\ pc = "shell"
    /\ runs < MaxRuns
    /\ \E language \in {"ENG", "SRB", "BOTH"}, variants \in counts :
          /\ args' = Arguments(language, variants, FALSE)
          /\ lang_queue' = IF language = "BOTH" THEN <<"ENG", "SRB">> ELSE <<language>>
          /\ generator' = new_generator(lang_queue'[1])
    /\ runs' = runs + 1
    /\ saved' = {}
    /\ uncaught' = ""
    /\ exit_code' = -1
    /\ all_generated_files' = <<>>
    /\ rng' = seed(Seed)
    /\ generated_files' = <<>>
    /\ variant_num' = 1
    /\ pc' = "loop"
    /\ UNCHANGED <<serviceVars, otherVars, loadVars, convertVars, assembleVars, out_dir, listed, rewrites>>

MainGenerate == MainGenerateWith(1..MaxVariants)

\* The exceptions the loop of generate_quiz_variants and main catch.
IsRuntimeError(kind) == kind \in {"RecursionError"}

ThisVariant ==
    generate_quiz_for_language(generator, Head(lang_queue), fs, rng)

InLoop == pc = "loop" /\ variant_num <= args.variants

\* One pass of the loop: the variant is generated and saved.
VariantGenerated ==
    /\ InLoop
    /\ ThisVariant.kind = "ok"
    /\ LET output_path == quiz_filename(Head(lang_queue), variant_num)
       IN /\ out_dir' = [n \in DOMAIN out_dir \cup {output_path} |->
                            IF n = output_path THEN ThisVariant.script ELSE out_dir[n]]
          /\ saved' = saved \cup {output_path}
          /\ generated_files' = Append(generated_files, output_path)
    /\ generator' = ThisVariant.generator
    /\ rng' = rng + ThisVariant.draws
    /\ variant_num' = variant_num + 1
    /\ UNCHANGED <<serviceVars, otherVars, loadVars, convertVars, assembleVars, pc, args, lang_queue,
                   all_generated_files, exit_code, uncaught, listed, rewrites, runs>>

\* One pass of the loop: a RuntimeError is caught and logged, the loop continues.
VariantSkipped ==
    /\ InLoop
    /\ IsRuntimeError(ThisVariant.kind)
    /\ generator' = ThisVariant.generator
    /\ rng' = rng + ThisVariant.draws
    /\ variant_num' = variant_num + 1
    /\ UNCHANGED <<serviceVars, otherVars, loadVars, convertVars, assembleVars, pc, args, lang_queue, generated_files,
                   all_generated_files, out_dir, saved, exit_code, uncaught, listed,
                   rewrites, runs>>

\* One pass of the loop: any other exception leaves generate_quiz_variants
\* and main (which catches KeyboardInterrupt and RuntimeError only), and the
\* interpreter exits with status 1.
VariantRaised ==
    /\ InLoop
    /\ ThisVariant.kind # "ok"
    /\ ~IsRuntimeError(ThisVariant.kind)
    /\ generator' = ThisVariant.generator
    /\ rng' = rng + ThisVariant.draws
    /\ uncaught' = ThisVariant.kind
    /\ exit_code' = 1
    /\ pc' = "shell"
    /\ UNCHANGED <<serviceVars, otherVars, loadVars, convertVars, assembleVars, args, lang_queue, variant_num,
                   generated_files, all_generated_files, out_dir, saved, listed,
                   rewrites, runs>>

LoopDone == pc = "loop" /\ variant_num > args.variants

\* generate_quiz_variants returns and main calls it for the next language.
NextLanguage ==
    /\ LoopDone
    /\ Len(lang_queue) > 1
    /\ all_generated_files' = all_generated_files \o generated_files
    /\ lang_queue' = Tail(lang_queue)
    /\ generator' = new_generator(lang_queue'[1])
    /\ rng' = seed(Seed)
    /\ generated_files' = <<>>
    /\ variant_num' = 1
    /\ UNCHANGED <<serviceVars, otherVars, loadVars, convertVars, assembleVars, pc, args, out_dir, saved, exit_code,
                   uncaught, listed, rewrites, runs>>

\* The last generate_quiz_variants call returns: main's summary and exit status.
MainSummary ==
    /\ LoopDone
    /\ Len(lang_queue) = 1
    /\ all_generated_files' = all_generated_files \o generated_files
    /\ IF all_generated_files' # <<>>
       THEN /\ listed' = Listing(None, list_generated_files(out_dir, None))
            /\ exit_code' = 0
       ELSE /\ exit_code' = 1
            /\ UNCHANGED listed
    /\ pc' = "shell"
    /\ UNCHANGED <<serviceVars, otherVars, loadVars, rng, convertVars, assembleVars, args, lang_queue, generator,
                   variant_num, generated_files, out_dir, saved, uncaught, rewrites, runs>>

NextBatch ==
    \/ EnvRewrite
    \/ MainListFiles
    \/ MainRejectVariants
    \/ MainGenerate
    \/ VariantGenerated
    \/ VariantSkipped
    \/ VariantRaised
    \/ NextLanguage
    \/ MainSummary

SpecBatch == InitBatch /\ [][NextBatch]_vars

(***************************************************************************)
(* Claims about the generation CLI.                                        *)
(***************************************************************************)
GenerateRunEnded ==
    /\ pc = "shell"
    /\ exit_code # -1
    /\ ~args.list_files
    /\ args.variants > 0

\* C7: a variant whose generation fails is logged and skipped, and the
\* loop goes on to the next variant number with the paths generated so far
\* (so that N requested variants of which one fails give N-1 paths).
C7_FailedVariantSkipped ==
    [][(InLoop /\ ThisVariant.kind # "ok" /\ fs' = fs)
          => /\ pc' = "loop"
             /\ variant_num' = variant_num + 1
             /\ generated_files' = generated_files
             /\ uncaught' = ""]_vars

\* Number of bracketed language tags in a title.
TagCount(title) == Cardinality({i \in 1..Len(title) : title[i] = "["})

\* C8: between the generations of one generator the title is the one it
\* was constructed with, also after a generation that failed part-way, and
\* the title embedded in every artifact carries exactly one language tag.
C8_TitleRestoredAfterEachGeneration ==
    /\ pc = "loop" => generator.title = new_generator(generator.language).title
    /\ \A n \in DOMAIN out_dir : TagCount(out_dir[n].title) = 1

\* C9: a generate run (positive variant count) ends with exit code 0 if and
\* only if at least one artifact file was written during the run, and with
\* exit code 1 otherwise.
C9_ExitCodeIffArtifactProduced ==
    GenerateRunEnded =>
        /\ exit_code \in {0, 1}
        /\ exit_code = 0 <=> saved # {}

\* Does the name contain the characters of part as a contiguous run?
Contains(name, part) ==
    \E at \in 0..(Len(name) - Len(part)) :
        \A k \in 1..Len(part) : name[at + k] = part[k]

bracketed(language) == <<"[">> \o lang_chars(language) \o <<"]">>

\* C10: list_generated_files(output_dir, language=L) returns exactly the
\* files of the output directory whose name contains the literal "[L]":
\* every file generate_quiz_variants wrote for L and none of the other
\* language.
C10_ListingMatchesLiteralTag ==
    (args.list_files /\ args.language \in SupportedLanguages)
    => listed.files = {n \in DOMAIN out_dir : Contains(n, bracketed(args.language))}

(***************************************************************************)
(* Embedding free text in the artifact.  A text is a sequence of           *)
(* characters; the characters that matter to the escaping are the          *)
(* backslash, the two quotes, the line feed and the carriage return, next  *)
(* to letters (n and r are the letters of the escapes \n and \r).          *)
(***************************************************************************)
MaxText == 3         \* characters of an embedded text

backslash == "\\"

dquote == "\""

squote == "'"

LF == "\n"

CR == "\r"

TextChars == {"a", "n", backslash, dquote, squote, LF, CR}

\* str.replace(old, new) for a one-character old.
RECURSIVE replace(_, _, _)
replace(s, old, new) ==
    IF s = <<>> THEN <<>>
    ELSE (IF Head(s) = old THEN new ELSE <<Head(s)>>) \o replace(Tail(s), old, new)

\* An escaper that handles the double quote before the backslash, so that
\* the backslash it has just written is escaped again.
escape_js_string_quote_first(t) ==
    replace(replace(replace(replace(t, dquote, <<backslash, dquote>>),
                            backslash, <<backslash, backslash>>),
                    LF, <<backslash, "n">>),
            CR, <<backslash, "r">>)

\* QuestionGenerator._escape_js_string.
escape_js_string(t) ==
    replace(replace(replace(replace(t, backslash, <<backslash, backslash>>),
                            dquote, <<backslash, dquote>>),
                    LF, <<backslash, "n">>),
            CR, <<backslash, "r">>)

\* json.dumps of a string made of these characters: the text between
\* double quotes, with backslash, double quote, line feed and carriage
\* return escaped.
RECURSIVE json_escape(_)
json_escape(t) ==
    IF t = <<>> THEN <<>>
    ELSE (CASE Head(t) = backslash -> <<backslash, backslash>>
            [] Head(t) = dquote    -> <<backslash, dquote>>
            [] Head(t) = LF        -> <<backslash, "n">>
            [] Head(t) = CR        -> <<backslash, "r">>
            [] OTHER               -> <<Head(t)>>) \o json_escape(Tail(t))

json_dumps(t) == <<dquote>> \o json_escape(t) \o <<dquote>>

\* _format_questions_for_js:  question: "{question_text}"
format_question_text(t) == <<dquote>> \o escape_js_string(t) \o <<dquote>>

\* _format_questions_for_js: one element of  choices: {json.dumps(choices)}
\* where choices = [self._escape_js_string(choice) for choice in q['choices']]
format_choice(t) == json_dumps(escape_js_string(t))

\* generate_script:  '{self._escape_js_string(self.title)}'  and the same
\* for description and confirmation_message.
Settings == {"title", "description", "confirmation_message"}

embed_setting(t) == <<squote>> \o escape_js_string(t) \o <<squote>>

Embedded(field, chars) == [field |-> field, chars |-> chars]

InitEscape ==
    /\ text \in SeqsUpTo(TextChars, MaxText)
    /\ literal = NotEmbedded
    /\ fs = <<>>
    /\ loaded = NotCalled
    /\ rng = 0
    /\ IdleConvert
    /\ IdleAssemble
    /\ IdleBatch
    /\ IdleWork
    /\ history = <<>>
    /\ IdleDeploy
    /\ IdleService

FormatQuestionText ==
    /\ literal = NotEmbedded
    /\ literal' = Embedded("question", format_question_text(text))
    /\ UNCHANGED <<serviceVars, loadVars, rng, convertVars, assembleVars, batchVars, text, workVars,
                   history, deployVars>>

FormatChoice ==
    /\ literal = NotEmbedded
    /\ literal' = Embedded("choice", format_choice(text))
    /\ UNCHANGED <<serviceVars, loadVars, rng, convertVars, assembleVars, batchVars, text, workVars,
                   history, deployVars>>

EmbedSetting ==
    /\ literal = NotEmbedded
    /\ \E field \in Settings : literal' = Embedded(field, embed_setting(text))
    /\ UNCHANGED <<serviceVars, loadVars, rng, convertVars, assembleVars, batchVars, text, workVars,
                   history, deployVars>>

NextEscape == FormatQuestionText \/ FormatChoice \/ EmbedSetting

SpecEscape == InitEscape /\ [][NextEscape]_vars

(***************************************************************************)
(* Claims about escaping.  The artifact is JavaScript: a string literal    *)
(* opens with a quote and runs to the first unescaped occurrence of the    *)
(* same quote; a backslash and the character after it denote one character *)
(* (\n a line feed, \r a carriage return, a backslash before a line        *)
(* terminator nothing, before anything else that character); a line        *)
(* terminator that is not escaped is a syntax error.                       *)
(***************************************************************************)
Scanned(ok, end, value) == [ok |-> ok, end |-> end, value |-> value]

RECURSIVE JsScan(_, _, _, _)
JsScan(chars, i, quote, value) ==
    IF i > Len(chars) THEN Scanned(FALSE, 0, value)
    ELSE IF chars[i] = quote THEN Scanned(TRUE, i, value)
    ELSE IF chars[i] \in {LF, CR} THEN Scanned(FALSE, 0, value)
    ELSE IF chars[i] = backslash
         THEN IF i + 1 > Len(chars) THEN Scanned(FALSE, 0, value)
              ELSE LET c == chars[i + 1]
                       denoted == CASE c = "n" -> <<LF>>
                                    [] c = "r" -> <<CR>>
                                    [] c \in {LF, CR} -> <<>>
                                    [] OTHER -> <<c>>
                   IN JsScan(chars, i + 2, quote, value \o denoted)
    ELSE JsScan(chars, i + 1, quote, value \o <<chars[i]>>)

\* The literal that starts at the first character of chars.
JsLiteral(chars) ==
    IF chars = <<>> \/ chars[1] \notin {dquote, squote} THEN Scanned(FALSE, 0, <<>>)
    ELSE JsScan(chars, 2, chars[1], <<>>)

\* The characters written are one whole literal: it closes at the last one.
ClosesAtEnd(chars) == JsLiteral(chars).ok /\ JsLiteral(chars).end = Len(chars)

\* C11: the string literal embedded for a choice denotes exactly the
\* original choice text (each special character escaped once, never twice).
C11_ChoiceLiteralDenotesText ==
    literal.field = "choice" =>
        /\ ClosesAtEnd(literal.chars)
        /\ JsLiteral(literal.chars).value = text

\* C12: for the title, description and confirmation message, the text
\* placed in the artifact never terminates the string literal that encloses
\* it: the literal closes at the quote written after the text.
C12_SettingNeverTerminatesLiteral ==
    literal.field \in Settings => ClosesAtEnd(literal.chars)

\* The question prompt, embedded between double quotes after one escaping
\* pass, denotes the prompt.
QuestionLiteralDenotesText ==
    literal.field = "question" =>
        /\ ClosesAtEnd(literal.chars)
        /\ JsLiteral(literal.chars).value = text

\* Number of consecutive backslashes that end just before position i.
RECURSIVE BackslashesBefore(_, _)
BackslashesBefore(chars, i) ==
    IF i > 1 /\ chars[i - 1] = backslash THEN 1 + BackslashesBefore(chars, i - 1) ELSE 0

\* The characters written between the two quotes of the literal.
Inside(chars) == SubSeq(chars, 2, Len(chars) - 1)

\* C27: _escape_js_string is reversible: read as a double-quoted string
\* literal the escaped text denotes the original text, and it contains no
\* raw line feed, no raw carriage return and no double quote that is not
\* preceded by an odd number of backslashes.
C27_EscapeReversible ==
    literal.field = "question" =>
        LET escaped == Inside(literal.chars)
        IN /\ literal.chars[1] = dquote
           /\ literal.chars[Len(literal.chars)] = dquote
           /\ JsLiteral(literal.chars) = Scanned(TRUE, Len(literal.chars), text)
           /\ \A i \in 1..Len(escaped) :
                 /\ escaped[i] \notin {LF, CR}
                 /\ escaped[i] = dquote => BackslashesBefore(escaped, i) % 2 = 1

\* C27 witness: a text of a backslash, a double quote and a line feed was
\* escaped to six characters.
C27_Witness ==
    /\ literal.field = "question"
    /\ text = <<backslash, dquote, LF>>
    /\ Inside(literal.chars) = <<backslash, backslash, backslash, dquote, backslash, "n">>

(***************************************************************************)
(* The lists convert_format works on, as objects in memory.  memory is the *)
(* sequence of list objects, a reference is a position in it.  The answers *)
(* lists of the n questions are the objects 1..n; list.copy() makes a new  *)
(* object and random.shuffle rearranges the object it is given.            *)
(***************************************************************************)
Copied(memory, ref) == [memory |-> memory, ref |-> ref]

\* No copy: choices is the answers list itself.
copy_same_object(memory, ref) == Copied(memory, ref)

\* question['answers'].copy()
copy(memory, ref) == Copied(Append(memory, memory[ref]), Len(memory) + 1)

\* random.shuffle(choices)
shuffle_object(memory, ref, raw, at) ==
    [memory EXCEPT ![ref] = shuffle(memory[ref], raw, at)]

\* The loop of convert_format from question i on; refs collects the
\* references of the choices lists put into the outputs.
RECURSIVE convert_in_memory(_, _, _, _, _, _, _)
convert_in_memory(memory, n, i, shuffled, raw, at, refs) ==
    IF i > n THEN [memory |-> memory, refs |-> refs]
    ELSE LET choices == copy(memory, i)
             after == IF shuffled
                      THEN shuffle_object(choices.memory, choices.ref, raw, at)
                      ELSE choices.memory
             draws == IF shuffled THEN shuffle_draws(Len(memory[i])) ELSE 0
         IN convert_in_memory(after, n, i + 1, shuffled, raw, at + draws,
                              Append(refs, choices.ref))

\* The answers lists of the questions, and the choices lists of the outputs,
\* once convert_format has returned.
lists_after_convert(qs, shuffled, raw, at) ==
    LET done == convert_in_memory([i \in 1..Len(qs) |-> qs[i].answers.items],
                                  Len(qs), 1, shuffled, raw, at, <<>>)
    IN [answers |-> [i \in 1..Len(qs) |-> done.memory[i]],
        choices |-> [i \in 1..Len(qs) |-> done.memory[done.refs[i]]]]

(***************************************************************************)
(* Workflow runs: one call of generate_quiz_from_multiple_files on two     *)
(* collections, by a generator whose random sequence stands at any of the  *)
(* first positions, then calls of generate_script on the pool it embedded. *)
(***************************************************************************)
MaxPosition == 11    \* draws made from the random sequence before the call

MaxRenders == 2      \* generate_script calls after the generation

CollectionA ==
    File("list", <<Question("A1", <<"a", "b", "c", "d">>, "b"),
                   Question("A2", <<"w", "x", "y", "z">>, "z"),
                   Question("A3", <<"x", "y", "x", "z">>, "x")>>)

CollectionB ==
    File("list", <<Question("B1", <<"a", "b", "c", "d">>, "a"),
                   InvalidEntry,
                   Question("B2", <<"w", "x", "y", "z">>, "w"),
                   Question("B3", <<"p", "q", "r", "s">>, "s")>>)

ShortCollection == File("list", <<Question("S1", <<"a", "b", "c", "d">>, "d"), InvalidEntry>>)

WorkFs ==
    {[p \in AssemblePaths |-> IF p = "A.json" THEN a ELSE b] :
        a \in {CollectionA, ShortCollection, File("missing", <<>>)},
        b \in {CollectionB, ShortCollection}}

Work(kind, at, all_questions, picks, records, choices, script) ==
    [kind |-> kind, at |-> at, all_questions |-> all_questions, picks |-> picks,
     records |-> records, choices |-> choices, script |-> script]

\* What one call of generate_quiz_from_multiple_files leaves behind: the
\* records load_questions_from_multiple_files returned, the same records as
\* they are in memory when the call is over, the choices lists convert_format
\* created, and the script.
workflow(gen, fsys, configs, at) ==
    LET raw == random_from(at)
        all_questions == load_questions_from_multiple_files(fsys, configs, raw, 0)
        lists == lists_after_convert(all_questions.questions, TRUE, raw, all_questions.draws)
        records == [i \in 1..Len(all_questions.questions) |->
                       [all_questions.questions[i] EXCEPT !.answers.items = lists.answers[i]]]
        generation == generate_quiz_from_multiple_files(gen, fsys, configs, at)
    IN IF all_questions.kind # "ok"
       THEN Work(generation.kind, at, <<>>, <<>>, <<>>, <<>>, generation.script)
       ELSE Work(generation.kind, at, all_questions.questions, all_questions.picks,
                 records, lists.choices, generation.script)

Rendered(gen, at, qs, script_content, gen_after, rng_after) ==
    [generator |-> gen, rng |-> at, questions |-> qs, script |-> script_content,
     generator_after |-> gen_after, rng_after |-> rng_after]

InitWork ==
    /\ fs \in WorkFs
    /\ file_configs \in AssembleConfigs
    /\ generator \in {new_generator(l) : l \in SupportedLanguages}
    /\ rng \in 0..MaxPosition
    /\ work = NoWork
    /\ renders = <<>>
    /\ loaded = NotCalled
    /\ assembled = NotAssembled
    /\ IdleConvert
    /\ pc = "shell"
    /\ args = NoArgs
    /\ lang_queue = <<>>
    /\ variant_num = 0
    /\ generated_files = <<>>
    /\ all_generated_files = <<>>
    /\ out_dir = <<>>
    /\ saved = {}
    /\ exit_code = -1
    /\ uncaught = ""
    /\ listed = NotListed
    /\ rewrites = 0
    /\ runs = 0
    /\ IdleEscape
    /\ history = <<>>
    /\ IdleDeploy
    /\ IdleService

GenerateQuizFromMultipleFiles ==
    /\ work = NoWork
    /\ LET generation == generate_quiz_from_multiple_files(generator, fs, file_configs, rng)
       IN /\ work' = workflow(generator, fs, file_configs, rng)
          /\ generator' = generation.generator
          /\ rng' = rng + generation.draws
    /\ UNCHANGED <<serviceVars, loadVars, convertVars, assembleVars, pc, args, lang_queue, variant_num,
                   generated_files, all_generated_files, out_dir, saved, exit_code, uncaught,
                   listed, rewrites, runs, renders, escapeVars, history, deployVars>>

\* generate_script called on the pool of the generation: it reads the
\* generator and the questions, assigns nothing and draws nothing.
GenerateScript ==
    /\ work.kind = "ok"
    /\ Len(renders) < MaxRenders
    /\ UNCHANGED <<serviceVars, loadVars, rng, convertVars, assembleVars, batchVars, work, escapeVars,
                   history, deployVars>>
    /\ renders' = Append(renders,
                         Rendered(generator, rng, work.script.questions,
                                  generate_script(generator, work.script.questions),
                                  generator', rng'))

NextWork == GenerateQuizFromMultipleFiles \/ GenerateScript

SpecWork == InitWork /\ [][NextWork]_vars

(***************************************************************************)
(* Claims about the workflow.                                              *)
(***************************************************************************)
\* The output is the JS form of the record: its prompt, its answers in some
\* order, and the position of its correct string.
ConvertedFrom(out, record) ==
    /\ out.question = record.question
    /\ SameMultiset(out.choices, record.answers.items)
    /\ out.correct \in 0..(Len(out.choices) - 1)
    /\ out.choices[out.correct + 1] = record.correct

\* The records drawn from all collections, in configuration order.
RECURSIVE DrawnRecords(_, _, _)
DrawnRecords(fsys, configs, picks) ==
    IF configs = <<>> THEN <<>>
    ELSE LET valid == ValidList(fsys[Head(configs).path])
         IN [j \in 1..Len(Head(picks)) |-> valid[Head(picks)[j]]]
            \o DrawnRecords(fsys, Tail(configs), Tail(picks))

Pool == work.script.questions

\* C14: the pool embedded by generate_quiz_from_multiple_files is a
\* permutation of the concatenation of the records drawn from all
\* collections: as many entries as records, every record converted exactly
\* as often as it was drawn, every entry the conversion of a drawn record.
C14_PoolPermutesDrawnRecords ==
    work.kind = "ok" =>
        LET drawn == DrawnRecords(fs, file_configs, work.picks)
        IN /\ work.all_questions = drawn
           /\ work.script.count = Len(drawn)
           /\ Len(Pool) = Len(drawn)
           /\ \A i \in 1..Len(drawn) :
                 Cardinality({j \in 1..Len(Pool) : ConvertedFrom(Pool[j], drawn[i])})
                     = Occurrences(drawn, drawn[i])
           /\ \A j \in 1..Len(Pool) : \E i \in 1..Len(drawn) : ConvertedFrom(Pool[j], drawn[i])

FromA(out) == out.question \in {"A1", "A2", "A3"}

\* C14 witness: two records of collection A with a record of collection B
\* between them in the pool.
C14_Witness ==
    /\ work.kind = "ok"
    /\ Len(Pool) = 3
    /\ FromA(Pool[1])
    /\ ~FromA(Pool[2])
    /\ FromA(Pool[3])
    /\ file_configs[1].path = "A.json"

\* C17: after convert_format and the merge shuffle every record that was
\* loaded and drawn still has its answers in the original order and its
\* original correct string; the shuffled lists are the outputs' own.
C17_RecordsNotChanged ==
    work.kind = "ok" =>
        /\ work.records = work.all_questions
        /\ work.records = DrawnRecords(fs, file_configs, work.picks)
        /\ \A i \in 1..Len(work.records) :
              \E j \in 1..Len(Pool) :
                 /\ Pool[j].question = work.records[i].question
                 /\ Pool[j].choices = work.choices[i]

\* C17 witness: every drawn record had its choices reordered, and the merge
\* shuffle moved the first record.
C17_Witness ==
    /\ work.kind = "ok"
    /\ Len(work.records) = 3
    /\ \A i \in 1..3 : work.choices[i] # work.all_questions[i].answers.items
    /\ \A i \in 1..3 : work.records[i].answers.items = work.all_questions[i].answers.items
    /\ Pool[1].question # work.all_questions[1].question

MaxGenerators == 2   \* QuestionGenerator objects constructed in a session

MaxCalls == 2        \* generate_quiz_for_language calls on one generator

SessionFs ==
    {GoodFs} \cup {[GoodFs EXCEPT ![config_path("ENG", 2)] = f] : f \in BadFiles}

Call(gen, language, at, generation) ==
    [generator |-> gen, language |-> language, at |-> at, kind |-> generation.kind,
     script |-> generation.script, draws |-> generation.draws,
     generator_after |-> generation.generator]

\* The languages asked for: the supported ones and one that is not.
CallLanguages == SupportedLanguages \cup {"FRA"}

InitSession ==
    /\ fs \in SessionFs
    /\ generator = NoGenerator
    /\ rng = 0
    /\ history = <<>>
    /\ loaded = NotCalled
    /\ IdleConvert
    /\ IdleAssemble
    /\ pc = "shell"
    /\ args = NoArgs
    /\ lang_queue = <<>>
    /\ variant_num = 0
    /\ generated_files = <<>>
    /\ all_generated_files = <<>>
    /\ out_dir = <<>>
    /\ saved = {}
    /\ exit_code = -1
    /\ uncaught = ""
    /\ listed = NotListed
    /\ rewrites = 0
    /\ runs = 0
    /\ IdleEscape
    /\ IdleWork
    /\ IdleDeploy
    /\ IdleService

\* QuestionGenerator(language=...)
NewGenerator ==
    /\ Len(history) < MaxGenerators
    /\ \E language \in SupportedLanguages : generator' = new_generator(language)
    /\ rng' = seed(Seed)
    /\ history' = Append(history, <<>>)
    /\ UNCHANGED <<serviceVars, loadVars, convertVars, assembleVars, pc, args, lang_queue, variant_num,
                   generated_files, all_generated_files, out_dir, saved, exit_code, uncaught,
                   listed, rewrites, runs, escapeVars, workVars, deployVars>>

\* generator.generate_quiz_for_language(language, output_path) for one of
\* the languages given.
GenerateQuizForLanguageIn(languages) ==
    /\ history # <<>>
    /\ Len(history[Len(history)]) < MaxCalls
    /\ \E language \in languages :
          LET generation == generate_quiz_for_language(generator, language, fs, rng)
          IN /\ history' = [history EXCEPT ![Len(history)] =
                               Append(@, Call(generator, language, rng, generation))]
             /\ generator' = generation.generator
             /\ rng' = rng + generation.draws
    /\ UNCHANGED <<serviceVars, loadVars, convertVars, assembleVars, pc, args, lang_queue, variant_num,
                   generated_files, all_generated_files, out_dir, saved, exit_code, uncaught,
                   listed, rewrites, runs, escapeVars, workVars, deployVars>>

GenerateQuizForLanguage == GenerateQuizForLanguageIn(SupportedLanguages)

NextSession == NewGenerator \/ GenerateQuizForLanguage

SpecSession == InitSession /\ [][NextSession]_vars

\* Sessions in which an unsupported language is asked for as well.
GenerateQuizForAnyLanguage == GenerateQuizForLanguageIn(CallLanguages)

NextSessionAny == NewGenerator \/ GenerateQuizForAnyLanguage

SpecSessionAny == InitSession /\ [][NextSessionAny]_vars

(***************************************************************************)
(* Claims about sessions.                                                  *)
(***************************************************************************)
SameCallsUpTo(a, b, k) ==
    \A m \in 1..k : history[a][m].language = history[b][m].language

\* C13: two generators, each freshly constructed, that are asked for the
\* same sequence of quizzes on the same collections give identical results
\* call by call (the same artifact, or the same failure); and on one
\* generator the k-th call starts in the random sequence where the (k-1)-th
\* left it, the first at the start.
C13_FreshGeneratorsRepeat ==
    /\ \A a, b \in 1..Len(history) :
          \A k \in 1..Len(history[a]) :
             (k <= Len(history[b]) /\ SameCallsUpTo(a, b, k))
             => /\ history[a][k].kind = history[b][k].kind
                /\ history[a][k].script = history[b][k].script
    /\ \A a \in 1..Len(history) :
          \A k \in 1..Len(history[a]) :
             history[a][k].at = IF k = 1 THEN 0
                                ELSE history[a][k - 1].at + history[a][k - 1].draws

\* C13 witness: two generators each produced two variants of the same
\* language; the second variant differs from the first and started where
\* the first ended, and the second generator repeated both.
C13_Witness ==
    /\ Len(history) = 2
    /\ Len(history[1]) = 2
    /\ Len(history[2]) = 2
    /\ \A a \in 1..2 : \A k \in 1..2 :
          history[a][k].kind = "ok" /\ history[a][k].language = "ENG"
    /\ history[1][2].at > 0
    /\ history[1][1].script # history[1][2].script
    /\ history[2][1].script = history[1][1].script
    /\ history[2][2].script = history[1][2].script

\* C30: a call of generate_quiz_for_language with a language outside
\* {ENG, SRB} raises an error, produces no script, and leaves the generator
\* (its language and its title) as it was before the call.
C30_UnsupportedLanguageLeavesGenerator ==
    \A a \in 1..Len(history) :
       \A k \in 1..Len(history[a]) :
          upper(history[a][k].language) \notin SupportedLanguages
          => /\ history[a][k].kind = "ValueError"
             /\ history[a][k].script = NoScript
             /\ history[a][k].generator_after.language = history[a][k].generator.language
             /\ history[a][k].generator_after.title = history[a][k].generator.title

(***************************************************************************)
(* Generation runs with many variants: one run of the generation CLI on    *)
(* collections that stay as they are, with up to MaxNumVariants variants   *)
(* per language (the default of --variants is 10).                         *)
(***************************************************************************)
MaxNumVariants == 11 \* largest --variants argument of these runs

InitVariants ==
    /\ fs \in SessionFs
    /\ loaded = NotCalled
    /\ rng = 0
    /\ IdleConvert
    /\ IdleAssemble
    /\ pc = "shell"
    /\ args = NoArgs
    /\ lang_queue = <<>>
    /\ generator = NoGenerator
    /\ variant_num = 0
    /\ generated_files = <<>>
    /\ all_generated_files = <<>>
    /\ out_dir = <<>>
    /\ saved = {}
    /\ exit_code = -1
    /\ uncaught = ""
    /\ listed = NotListed
    /\ rewrites = 0
    /\ runs = MaxRuns - 1
    /\ IdleOther
    /\ IdleService

MainGenerateMany == MainGenerateWith(1..MaxNumVariants)

NextVariants ==
    \/ MainGenerateMany
    \/ VariantGenerated
    \/ VariantSkipped
    \/ VariantRaised
    \/ NextLanguage
    \/ MainSummary

SpecVariants == InitVariants /\ [][NextVariants]_vars

(***************************************************************************)
(* Claims about file names.                                                *)
(***************************************************************************)
NamePrefix ==
    <<"A", "I", " ", "F", "u", "n", "d", "a", "m", "e", "n", "t", "a", "l", "s">>
    \o <<" ", "|", " ">> \o <<"2", "0", "2", "5", "-", "0", "9", "-", "0", "8">>
    \o <<" ", "|", " ">>

NameTag(language) ==
    IF language = "ENG" THEN <<"[", "E", "N", "G", "]">> ELSE <<"[", "S", "R", "B", "]">>

DigitValue(c) == CHOOSE d \in 0..9 : Digit(d) = c

RECURSIVE DecimalValue(_)
DecimalValue(digits) ==
    IF digits = <<>> THEN 0
    ELSE 10 * DecimalValue(SubSeq(digits, 1, Len(digits) - 1)) + DigitValue(digits[Len(digits)])

\* name is "AI Fundamentals | <date> | [<LANG>] | Variant <n>.gs" for this
\* language and number, n written in decimal without leading zeros.
HasNameForm(name, language, n) ==
    LET head == NamePrefix \o NameTag(language) \o <<" ", "|", " ">>
                \o <<"V", "a", "r", "i", "a", "n", "t", " ">>
        digits == SubSeq(name, Len(head) + 1, Len(name) - 3)
    IN /\ Len(name) > Len(head) + 3
       /\ SubSeq(name, 1, Len(head)) = head
       /\ SubSeq(name, Len(name) - 2, Len(name)) = <<".", "g", "s">>
       /\ \A i \in 1..Len(digits) : \E d \in 0..9 : digits[i] = Digit(d)
       /\ digits[1] # "0"
       /\ DecimalValue(digits) = n

\* The paths the generate_quiz_variants calls of the run have returned or
\* collected so far.
ReturnedPaths ==
    IF pc = "loop" THEN all_generated_files \o generated_files ELSE all_generated_files

\* C19: every artifact file name has the form
\* "AI Fundamentals | <date> | [<LANG>] | Variant <n>.gs"; within one run
\* distinct (language, variant number) pairs give distinct names, so every
\* generated variant is a file of its own and the returned paths have no
\* duplicates.
C19_FileNamesFormedAndDistinct ==
    /\ \A l \in SupportedLanguages, n \in 1..MaxNumVariants :
          HasNameForm(quiz_filename(l, n), l, n)
    /\ \A i \in 1..Len(ReturnedPaths) :
          \E l \in SupportedLanguages, n \in 1..args.variants :
             HasNameForm(ReturnedPaths[i], l, n)
    /\ \A i, j \in 1..Len(ReturnedPaths) : i # j => ReturnedPaths[i] # ReturnedPaths[j]
    /\ pc = "loop" =>
          /\ saved = {ReturnedPaths[i] : i \in 1..Len(ReturnedPaths)}
          /\ Cardinality(saved) = Len(ReturnedPaths)
          /\ saved \subseteq DOMAIN out_dir

\* C19 witness: a run for both languages with eleven variants each ended
\* with 22 paths, the third of them
\* "AI Fundamentals | 2025-09-08 | [ENG] | Variant 3.gs".
C19_Witness ==
    /\ pc = "shell"
    /\ exit_code = 0
    /\ args.language = "BOTH"
    /\ args.variants = 11
    /\ Len(all_generated_files) = 22
    /\ Cardinality(saved) = 22
    /\ all_generated_files[3] =
          <<"A", "I", " ", "F", "u", "n", "d", "a", "m", "e", "n", "t", "a", "l", "s", " ", "|", " ",
            "2", "0", "2", "5", "-", "0", "9", "-", "0", "8", " ", "|", " ",
            "[", "E", "N", "G", "]", " ", "|", " ",
            "V", "a", "r", "i", "a", "n", "t", " ", "3", ".", "g", "s">>

(***************************************************************************)
(* Claims about the random sequence in a generation run.                   *)
(***************************************************************************)
\* A step of the run in which a QuestionGenerator is constructed.
Constructs == (pc = "shell" /\ pc' = "loop") \/ (pc = "loop" /\ lang_queue' # lang_queue)

\* A step of the run in which a variant is generated and saved.
SavesVariant == generated_files' = Append(generated_files, quiz_filename(Head(lang_queue), variant_num))

\* The variants of both languages saved so far embed the same questions.
LanguagesAgree ==
    \A n \in 1..MaxNumVariants :
       {quiz_filename("ENG", n), quiz_filename("SRB", n)} \subseteq saved
       => out_dir[quiz_filename("ENG", n)].questions = out_dir[quiz_filename("SRB", n)].questions

\* C29: the random sequence is put back to its seeded start exactly in the
\* steps that construct a QuestionGenerator; the variants generated on one
\* generator only advance it; so, on collections that are the same for both
\* languages, the SRB batch of a BOTH run draws what the ENG batch drew, and
\* its k-th variant embeds the questions of the k-th ENG variant.
C29_SeededAtConstructionOnly ==
    /\ [][IF Constructs THEN rng' = 0
          ELSE /\ rng' >= rng
               /\ SavesVariant => rng' > rng]_vars
    /\ [](fs = GoodFs => LanguagesAgree)

\* C29 witness: a run for both languages with two variants each has ended;
\* the second ENG variant differs from the first, and each SRB variant
\* embeds the questions of the ENG variant of its number.
C29_Witness ==
    /\ pc = "shell"
    /\ exit_code = 0
    /\ fs = GoodFs
    /\ args.language = "BOTH"
    /\ args.variants = 2
    /\ Cardinality(saved) = 4
    /\ rng > 0
    /\ out_dir[quiz_filename("ENG", 1)].questions # out_dir[quiz_filename("ENG", 2)].questions
    /\ out_dir[quiz_filename("SRB", 1)].questions = out_dir[quiz_filename("ENG", 1)].questions
    /\ out_dir[quiz_filename("SRB", 2)].questions = out_dir[quiz_filename("ENG", 2)].questions

(***************************************************************************)
(* GoogleAppsScriptDeployer.execute_function (gas_deployer.py): one call.  *)
(* Each pass of the retry loop is one step: the remote run call ends in    *)
(* one of the outcomes below, and the pass returns, raises or continues.   *)
(* The response of the k-th run call is identified by k.                   *)
(***************************************************************************)
MaxRetries == 3      \* largest max_retries argument

\* The remote call returns a response without 'error'; a response whose
\* error details say "Requested entity was not found"; one with other
\* details; one whose error has no 'details'; or raises an HttpError whose
\* text has 404 or 403 or neither; or raises another Exception.
ScriptErrors == {"error_not_found", "error_other", "error_no_details"}

HttpErrors == {"http_404", "http_403", "http_500"}

RunOutcomes == {"ok", "exception"} \cup ScriptErrors \cup HttpErrors

RetryDelays == {-1, 0, 5}

\* A response variable that is assigned by the first run call only.
response_of_first_call(k) == [call |-> 1]

\* response = self.service.scripts().run(...).execute() in pass k.
response_of(k) == [call |-> k]

NoneValue == [call |-> 0]

Returned(value) == [how |-> "returned", value |-> value]

RaisedOut(kind) == [how |-> "raised", value |-> kind]

\* time.sleep(secs): ValueError for a negative argument.
sleep(secs) == IF secs < 0 THEN "ValueError" ELSE "ok"

\* "requested entity was not found" in error_message and attempt < max_retries
retry_script_error(outcome, n, limit) == outcome = "error_not_found" /\ n < limit

\* A handler that retries after every HttpError while passes are left.
retry_http_error_whatever_status(outcome, n, limit) == n < limit

\* ("404" in error_message or "403" in error_message) and attempt < max_retries
retry_http_error(outcome, n, limit) == outcome \in {"http_404", "http_403"} /\ n < limit

Running == returned = NotReturned

InitExecute ==
    /\ service \in BOOLEAN
    /\ max_retries \in 0..MaxRetries
    /\ retry_delay \in RetryDelays
    /\ attempt = 0
    /\ run_calls = <<>>
    /\ slept = <<>>
    /\ returned = NotReturned
    /\ fs = <<>>
    /\ loaded = NotCalled
    /\ rng = 0
    /\ IdleConvert
    /\ IdleAssemble
    /\ IdleBatch
    /\ IdleEscape
    /\ IdleWork
    /\ history = <<>>
    /\ IdleService

\* if not self.service: return None
NotAuthenticated ==
    /\ Running
    /\ ~service
    /\ returned' = Returned(NoneValue)
    /\ UNCHANGED <<serviceVars, loadVars, rng, convertVars, assembleVars, batchVars, escapeVars, workVars,
                   history, service, max_retries, retry_delay, attempt, run_calls, slept>>

\* A pass of the loop is entered: for attempt in range(1, max_retries + 1).
InPass == Running /\ service /\ attempt < max_retries

\* The run call returns a response without 'error': return response.
RunReturnsResponse ==
    /\ InPass
    /\ attempt' = attempt + 1
    /\ run_calls' = Append(run_calls, "ok")
    /\ returned' = Returned(response_of(attempt'))
    /\ UNCHANGED <<serviceVars, loadVars, rng, convertVars, assembleVars, batchVars, escapeVars, workVars,
                   history, service, max_retries, retry_delay, slept>>

\* The run call returns a response with 'error': sleep and continue when
\* the error is retriable and passes are left, return None otherwise.  A
\* KeyError for missing details and a ValueError of time.sleep are raised
\* inside the try block and end in  except Exception: return None.
RunReturnsError ==
    /\ InPass
    /\ attempt' = attempt + 1
    /\ \E outcome \in ScriptErrors :
          /\ run_calls' = Append(run_calls, outcome)
          /\ IF /\ outcome # "error_no_details"
                /\ retry_script_error(outcome, attempt', max_retries)
                /\ sleep(retry_delay) = "ok"
             THEN returned' = NotReturned /\ slept' = Append(slept, retry_delay)
             ELSE returned' = Returned(NoneValue) /\ slept' = slept
    /\ UNCHANGED <<serviceVars, loadVars, rng, convertVars, assembleVars, batchVars, escapeVars, workVars,
                   history, service, max_retries, retry_delay>>

\* The run call raises HttpError: sleep and continue when the error is
\* retriable and passes are left, return None otherwise.  A ValueError of
\* time.sleep is raised inside the except clause and leaves the function.
RunRaisesHttpError ==
    /\ InPass
    /\ attempt' = attempt + 1
    /\ \E outcome \in HttpErrors :
          /\ run_calls' = Append(run_calls, outcome)
          /\ IF retry_http_error(outcome, attempt', max_retries)
             THEN IF sleep(retry_delay) = "ok"
                  THEN returned' = NotReturned /\ slept' = Append(slept, retry_delay)
                  ELSE returned' = RaisedOut(sleep(retry_delay)) /\ slept' = slept
             ELSE returned' = Returned(NoneValue) /\ slept' = slept
    /\ UNCHANGED <<serviceVars, loadVars, rng, convertVars, assembleVars, batchVars, escapeVars, workVars,
                   history, service, max_retries, retry_delay>>

\* The run call raises another Exception: return None.
RunRaisesException ==
    /\ InPass
    /\ attempt' = attempt + 1
    /\ run_calls' = Append(run_calls, "exception")
    /\ returned' = Returned(NoneValue)
    /\ UNCHANGED <<serviceVars, loadVars, rng, convertVars, assembleVars, batchVars, escapeVars, workVars,
                   history, service, max_retries, retry_delay, slept>>

\* The range is exhausted: log "Failed to execute ..." and return None.
LoopExhausted ==
    /\ Running
    /\ service
    /\ attempt >= max_retries
    /\ returned' = Returned(NoneValue)
    /\ UNCHANGED <<serviceVars, loadVars, rng, convertVars, assembleVars, batchVars, escapeVars, workVars,
                   history, service, max_retries, retry_delay, attempt, run_calls, slept>>

NextExecute ==
    \/ NotAuthenticated
    \/ RunReturnsResponse
    \/ RunReturnsError
    \/ RunRaisesHttpError
    \/ RunRaisesException
    \/ LoopExhausted

\* The interpreter keeps executing the function, and every remote call ends.
SpecExecute == InitExecute /\ [][NextExecute]_vars /\ WF_vars(NextExecute)

(***************************************************************************)
(* Claims about execute_function.                                          *)
(***************************************************************************)
Successes == {k \in 1..Len(run_calls) : run_calls[k] = "ok"}

ExecuteBounded ==
    /\ Len(run_calls) <= max_retries
    /\ Len(run_calls) = attempt
    /\ \A k \in Successes : k = Len(run_calls) /\ ~Running
    /\ returned.how = "returned" =>
          IF Successes # {}
          THEN returned.value.call = CHOOSE k \in Successes : \A m \in Successes : k <= m
          ELSE returned.value.call = 0
    /\ retry_delay >= 0 => returned.how # "raised"

\* C20: execute_function terminates for every max_retries and every
\* sequence of remote outcomes, makes at most max_retries run calls and none
\* after a successful one, and returns the response of the first successful
\* call, None when there is none (retry_delay not negative).
C20_ExecuteTerminatesWithinRetries ==
    []ExecuteBounded /\ <>(~Running)

\* C20 witness: with max_retries = 3 two retriable failures were followed
\* by a success, whose response was returned.
C20_Witness ==
    /\ max_retries = 3
    /\ run_calls = <<"http_404", "error_not_found", "ok">>
    /\ returned.how = "returned"
    /\ returned.value.call = 3

Retriable == {"error_not_found", "http_404", "http_403"}

\* C21: another attempt is started only after a retriable failure (script
\* error "requested entity was not found", HTTP error 404 or 403) and only
\* while attempts remain; any other failure ends the call with None after
\* that attempt; retry_delay is slept exactly once between two consecutive
\* attempts and never after the last one.
C21_RetryOnlyAfterRetriableFailure ==
    /\ \A k \in 1..(Len(run_calls) - 1) : run_calls[k] \in Retriable /\ k < max_retries
    /\ (Running /\ run_calls # <<>>) =>
          /\ run_calls[Len(run_calls)] \in Retriable
          /\ Len(run_calls) < max_retries
          /\ Len(slept) = Len(run_calls)
    /\ (run_calls # <<>> /\ run_calls[Len(run_calls)] \notin Retriable \cup {"ok"}) =>
          returned = Returned(NoneValue)
    /\ ~Running => Len(slept) = (IF run_calls = <<>> THEN 0 ELSE Len(run_calls) - 1)
    /\ \A i \in 1..Len(slept) : slept[i] = retry_delay

\* C21 witness: with three attempts allowed, a 403 was retried after one
\* sleep of 5 seconds and the script error that followed ended the call.
C21_Witness ==
    /\ max_retries = 3
    /\ retry_delay = 5
    /\ run_calls = <<"http_403", "error_other">>
    /\ slept = <<5>>
    /\ returned = Returned(NoneValue)

(***************************************************************************)
(* Numbers of the generated script (quiz_generator.py, generate_script).   *)
(* A JavaScript number is an IEEE 754 double: a positive one is kept as    *)
(* the Precision bits of its significand, most significant first, and the  *)
(* exponent of the leading bit; every operation rounds its exact result to *)
(* the nearest double, ties to the even significand.                       *)
(***************************************************************************)
Precision == 53

Zero == [zero |-> TRUE]

Double(sig, exp) == [zero |-> FALSE, sig |-> sig, exp |-> exp]

RECURSIVE BitsOfNat(_)
\* The binary digits of n >= 1, most significant first.
BitsOfNat(n) == IF n < 2 THEN <<n>> ELSE Append(BitsOfNat(n \div 2), n % 2)

RECURSIVE NatOfBits(_)
NatOfBits(bits) ==
    IF bits = <<>> THEN 0
    ELSE 2 * NatOfBits(SubSeq(bits, 1, Len(bits) - 1)) + bits[Len(bits)]

\* The `width` binary digits of n < 2^width, most significant first.
Padded(n, width) == [i \in 1..width |-> (n \div 2^(width - i)) % 2]

\* bits + 1, of the same length, for bits that are not all ones.
Increment(bits) ==
    LET last == CHOOSE i \in 1..Len(bits) :
                   bits[i] = 0 /\ \A j \in (i + 1)..Len(bits) : bits[j] = 1
    IN [i \in 1..Len(bits) |-> IF i < last THEN bits[i] ELSE IF i = last THEN 1 ELSE 0]

\* Round toward zero instead.
round_to_double_truncating(bits, sticky, exp) ==
    IF Len(bits) <= Precision
    THEN Double(bits \o [i \in 1..(Precision - Len(bits)) |-> 0], exp)
    ELSE Double(SubSeq(bits, 1, Precision), exp)

\* Round to nearest, ties to even: the double of the exact value whose
\* binary digits are `bits` (leading 1 of weight 2^exp) followed by a
\* non-zero tail iff `sticky`.
round_to_double(bits, sticky, exp) ==
    IF Len(bits) <= Precision
    THEN Double(bits \o [i \in 1..(Precision - Len(bits)) |-> 0], exp)
    ELSE LET keep == SubSeq(bits, 1, Precision)
             guard == bits[Precision + 1]
             rest == sticky \/ \E i \in (Precision + 2)..Len(bits) : bits[i] = 1
             up == guard = 1 /\ (rest \/ keep[Precision] = 1)
         IN IF ~up THEN Double(keep, exp)
            ELSE IF \A i \in 1..Precision : keep[i] = 1
                 THEN Double(<<1>> \o [i \in 1..(Precision - 1) |-> 0], exp + 1)
                 ELSE Double(Increment(keep), exp)

RECURSIVE TimesBits(_, _, _)
\* The digits of bits * n + carry, computed sixteen digits at a time.
TimesBits(bits, n, carry) ==
    IF bits = <<>> THEN (IF carry = 0 THEN <<>> ELSE BitsOfNat(carry))
    ELSE LET width == IF Len(bits) < 16 THEN Len(bits) ELSE 16
             x == NatOfBits(SubSeq(bits, Len(bits) - width + 1, Len(bits))) * n + carry
         IN TimesBits(SubSeq(bits, 1, Len(bits) - width), n, x \div 2^width)
            \o Padded(x % 2^width, width)

\* d * n for a natural number n.
times(d, n) ==
    IF d.zero \/ n = 0 THEN Zero
    ELSE LET product == TimesBits(d.sig, n, 0)
         IN round_to_double(product, FALSE, d.exp + Len(product) - Len(d.sig))

RECURSIVE QuotientBits(_, _, _)
\* The next `count` digits of the quotient with remainder r < b, computed
\* sixteen digits at a time, then whether a remainder is left.
QuotientBits(r, b, count) ==
    IF count = 0 THEN [bits |-> <<>>, sticky |-> r # 0]
    ELSE LET width == IF count < 16 THEN count ELSE 16
             scaled == r * 2^width
             tail == QuotientBits(scaled % b, b, count - width)
         IN [bits |-> Padded(scaled \div b, width) \o tail.bits, sticky |-> tail.sticky]

RECURSIVE divide_scaled(_, _, _)
\* a / b * 2^exp for naturals with b <= a < 2b after scaling.
divide_scaled(a, b, exp) ==
    IF a < b THEN divide_scaled(2 * a, b, exp - 1)
    ELSE IF a >= 2 * b THEN divide_scaled(a, 2 * b, exp + 1)
    ELSE LET q == QuotientBits(a - b, b, Precision)
         IN round_to_double(<<1>> \o q.bits, q.sticky, exp)

\* a / b for natural numbers, b > 0.
divide(a, b) == IF a = 0 THEN Zero ELSE divide_scaled(a, b, 0)

\* The integer part of a double (a small one).
floor(d) ==
    IF d.zero \/ d.exp < 0 THEN 0
    ELSE NatOfBits(SubSeq(d.sig, 1, d.exp + 1))

\* Math.ceil
ceil(d) ==
    IF d.zero THEN 0
    ELSE IF d.exp < 0 THEN 1
    ELSE IF \E i \in (d.exp + 2)..Precision : d.sig[i] = 1 THEN floor(d) + 1
    ELSE floor(d)

\* createRandomAIQuiz: Math.ceil(totalPoints * 0.7)
passing_score(totalPoints) == ceil(times(divide(7, 10), totalPoints))

\* onFormSubmit: totalPoints > 0 ? (earnedPoints / totalPoints) * 100 : 0
percentage(earnedPoints, totalPoints) ==
    IF totalPoints > 0 THEN times(divide(earnedPoints, totalPoints), 100) ELSE Zero

\* onFormSubmit: pct >= 70
pass_decision(pct) == floor(pct) >= 70

RECURSIVE Sum(_)
Sum(seq) == IF seq = <<>> THEN 0 ELSE Head(seq) + Sum(Tail(seq))

(***************************************************************************)
(* The generated script at work: createRandomAIQuiz makes a form of autograded     *)
(* items and logs the passing score; onFormSubmit grades one response.     *)
(***************************************************************************)
MaxItems == 12            \* questions embedded in a script

MaxPointsPerQuestion == 2 \* largest QuestionGenerator.points_per_question

Form(items) == [created |-> TRUE, items |-> items]

Submission(earnedPoints, totalPoints, pct, passed) ==
    [submitted |-> TRUE, earnedPoints |-> earnedPoints, totalPoints |-> totalPoints,
     pct |-> pct, passed |-> passed]

InitScore ==
    /\ IdleLoad
    /\ rng = 0
    /\ IdleConvert
    /\ IdleAssemble
    /\ IdleBatch
    /\ IdleOther
    /\ IdleService

\* createRandomAIQuiz(): one item of points_per_question points per selected question.
CreateRandomAIQuiz ==
    /\ ~form.created
    /\ \E n \in 0..MaxItems, points_per_question \in 1..MaxPointsPerQuestion :
          LET totalPoints == n * points_per_question
          IN /\ form' = Form([i \in 1..n |-> points_per_question])
             /\ passingScore' = passing_score(totalPoints)
    /\ UNCHANGED <<coreVars, quizDeployVars, cliVars, mailVars, submission>>

\* onFormSubmit(e) for a response with an e-mail address in which the
\* first `correct` items are answered correctly (the items of a form have
\* the same points, so which ones are right does not change the sums).
OnFormSubmit ==
    /\ form.created
    /\ \E correct \in 0..Len(form.items) :
          LET totalPoints == Sum(form.items)
              earnedPoints == Sum(SubSeq(form.items, 1, correct))
              pct == percentage(earnedPoints, totalPoints)
          IN submission' = Submission(earnedPoints, totalPoints, pct, pass_decision(pct))
    /\ UNCHANGED <<coreVars, quizDeployVars, cliVars, mailVars, form, passingScore>>

NextScore == CreateRandomAIQuiz \/ OnFormSubmit

SpecScore == InitScore /\ [][NextScore]_vars

\* C28: the pass decision of a submission agrees with the passing score
\* logged when the form was created: with a positive total the respondent
\* passes exactly when the earned points reach the passing score, and a
\* form without points never passes.
C28_PassAgreesWithPassingScore ==
    submission.submitted =>
       /\ 0 <= submission.earnedPoints
       /\ submission.earnedPoints <= submission.totalPoints
       /\ submission.totalPoints > 0 =>
             (submission.passed <=> submission.earnedPoints >= passingScore)
       /\ submission.totalPoints = 0 => ~submission.passed

\* C28 witness: on a form of ten points, where 0.7 * 10 is exactly the
\* passing score 7, seven earned points pass.
C28_Witness ==
    /\ submission.submitted
    /\ submission.totalPoints = 10
    /\ passingScore = 7
    /\ submission.earnedPoints = 7
    /\ submission.passed

(***************************************************************************)
(* GoogleAppsScriptDeployer.deploy_and_execute_quiz (gas_deployer.py): one *)
(* call.  Each remote call is one step; the passes of an execute_function  *)
(* call are the steps of execute_function above (with max_retries >= 1 the *)
(* loop always ends inside a pass).  A response of the remote run call is  *)
(* an Operation resource, which is never an empty object.                  *)
(***************************************************************************)
CreateOutcomes == {"id", "no_id", "http_error", "exception"}

UploadOutcomes == {"ok", "http_error", "exception"}

DriveOutcomes == {"build_raises", "found", "get_raises"}

NoExecution == [how |-> "idle", value |-> ""]

RemoteCall(call, outcome) == [call |-> call, outcome |-> outcome]

Execution(dev_mode, limit, calls, value) ==
    [dev_mode |-> dev_mode, max_retries |-> limit, run_calls |-> calls, value |-> value]

\* The values a key of the result can have: no value (the key is absent or
\* null), the empty string, or a URL.
UrlValues == {"None", "", "https://docs.google.com/forms/d/e/1/viewform",
              "https://docs.google.com/forms/d/1/edit"}

\* What a response holds: 'response' absent, null or an object; its 'result'
\* absent, a string or an object with the two URL keys.
ResponseContents ==
    {[response |-> r, result |-> "absent", publishedUrl |-> "None", editUrl |-> "None"] :
        r \in {"absent", "null"}}
    \cup {[response |-> "object", result |-> x, publishedUrl |-> "None", editUrl |-> "None"] :
             x \in {"absent", "text"}}
    \cup {[response |-> "object", result |-> "object", publishedUrl |-> u, editUrl |-> v] :
             u \in UrlValues, v \in UrlValues}

UrlPair(published_url, edit_url) == <<published_url, edit_url>>

Deployed(how, pair, content) == [how |-> how, value |-> pair, execution_response |-> content]

NoContent == [response |-> "absent", result |-> "absent", publishedUrl |-> "None", editUrl |-> "None"]

\* A fallback that starts whatever the call before returned.
not_response_ignored(value) == TRUE

\* if not execution_response
not_response(value) == value = NoneValue

\* A test that takes every string for a URL.
truthy_any_string(v) == v # "None"

\* if published_url and edit_url: the truth value of None, '' and a URL.
truthy(v) == v \notin {"None", ""}

\* extract_form_urls(execution_response); a TypeError of the membership
\* test on a null 'response' ends in  except Exception: return None, None.
extract_form_urls(content) ==
    IF content.response = "absent" THEN UrlPair("None", "None")
    ELSE IF content.response = "null" THEN UrlPair("None", "None")
    ELSE IF content.result # "object" THEN UrlPair("None", "None")
    ELSE IF truthy(content.publishedUrl) /\ truthy(content.editUrl)
         THEN UrlPair(content.publishedUrl, content.editUrl)
         ELSE UrlPair("None", "None")

\* The end of deploy_and_execute_quiz: the pair is returned when both URLs
\* are there; otherwise the response is inspected for the log (a TypeError
\* on a null 'response' ends in the outer except clause) and the call
\* returns None, None.
urls_of(content) ==
    LET pair == extract_form_urls(content)
    IN IF truthy(pair[1]) /\ truthy(pair[2]) THEN pair ELSE UrlPair("None", "None")

\* The arguments of the k-th execute_function call.
dev_mode_of(k) == k > 1

max_retries_of(k) == IF k < 3 THEN 2 ELSE 1

retry_delay_of(k) == IF k < 3 THEN 10 ELSE 5

InitQuizDeploy ==
    /\ IdleLoad
    /\ rng = 0
    /\ IdleConvert
    /\ IdleAssemble
    /\ IdleBatch
    /\ IdleEscape
    /\ IdleWork
    /\ history = <<>>
    /\ IdleForm
    /\ IdleCli
    /\ IdleMail
    /\ service \in BOOLEAN
    /\ max_retries = 0
    /\ retry_delay = 0
    /\ attempt = 0
    /\ run_calls = <<>>
    /\ slept = <<>>
    /\ returned = NoExecution
    /\ step = "create"
    /\ remote_calls = <<>>
    /\ executions = <<>>
    /\ urls = NotReturned

notExecuteVars ==
    <<loadVars, rng, convertVars, assembleVars, batchVars, escapeVars, workVars, history, formVars,
      cliVars, mailVars>>

\* project_id = self.create_script_project(project_title): RuntimeError
\* without a service, and every error of the remote call, give None.
CreateScriptProject ==
    /\ step = "create"
    /\ IF ~service
       THEN /\ urls' = Deployed("returned", UrlPair("None", "None"), NoContent)
            /\ step' = "done"
            /\ UNCHANGED remote_calls
       ELSE \E outcome \in CreateOutcomes :
               /\ remote_calls' = Append(remote_calls, RemoteCall("create", outcome))
               /\ IF outcome = "id"
                  THEN step' = "upload" /\ UNCHANGED urls
                  ELSE /\ urls' = Deployed("returned", UrlPair("None", "None"), NoContent)
                       /\ step' = "done"
    /\ UNCHANGED <<notExecuteVars, deployVars, executions>>

\* self.upload_script_content(project_id, script_content)
UploadScriptContent ==
    /\ step = "upload"
    /\ \E outcome \in UploadOutcomes :
          /\ remote_calls' = Append(remote_calls, RemoteCall("updateContent", outcome))
          /\ IF outcome = "ok"
             THEN step' = "verify" /\ UNCHANGED urls
             ELSE /\ urls' = Deployed("returned", UrlPair("None", "None"), NoContent)
                  /\ step' = "done"
    /\ UNCHANGED <<notExecuteVars, deployVars, executions>>

\* The wait and the look-up in Drive: an exception of build() leaves the
\* try block, one of files().get() is logged.
VerifyInDrive ==
    /\ step = "verify"
    /\ \E outcome \in DriveOutcomes :
          IF outcome = "build_raises"
          THEN /\ urls' = Deployed("returned", UrlPair("None", "None"), NoContent)
               /\ step' = "done"
               /\ UNCHANGED remote_calls
          ELSE /\ remote_calls' = Append(remote_calls, RemoteCall("files.get", outcome))
               /\ step' = "execute"
               /\ UNCHANGED urls
    /\ UNCHANGED <<notExecuteVars, deployVars, executions>>

\* The next execute_function call is made: the first one, or a later one
\* when the call before gave no response.
BeginExecution ==
    /\ step = "execute"
    /\ returned = NoExecution
    /\ Len(executions) < 3
    /\ executions # <<>> => not_response(executions[Len(executions)].value)
    /\ max_retries' = max_retries_of(Len(executions) + 1)
    /\ retry_delay' = retry_delay_of(Len(executions) + 1)
    /\ attempt' = 0
    /\ run_calls' = <<>>
    /\ slept' = <<>>
    /\ returned' = NotReturned
    /\ UNCHANGED <<notExecuteVars, service, quizDeployVars>>

\* The execute_function call returns.
EndExecution ==
    /\ step = "execute"
    /\ returned.how = "returned"
    /\ executions' = Append(executions,
                            Execution(dev_mode_of(Len(executions) + 1), max_retries,
                                      run_calls, returned.value))
    /\ remote_calls' = remote_calls \o [i \in 1..Len(run_calls) |-> RemoteCall("run", run_calls[i])]
    /\ run_calls' = <<>>
    /\ returned' = NoExecution
    /\ UNCHANGED <<notExecuteVars, service, max_retries, retry_delay, attempt, slept, step, urls>>

\* The third call gave no response either: return None, None.
AllExecutionsFailed ==
    /\ step = "execute"
    /\ returned = NoExecution
    /\ Len(executions) = 3
    /\ not_response(executions[3].value)
    /\ urls' = Deployed("returned", UrlPair("None", "None"), NoContent)
    /\ step' = "done"
    /\ UNCHANGED <<notExecuteVars, deployVars, remote_calls, executions>>

\* A call gave a response: the URLs are extracted from it.
ExtractFormUrls ==
    /\ step = "execute"
    /\ returned = NoExecution
    /\ executions # <<>>
    /\ ~not_response(executions[Len(executions)].value)
    /\ \E content \in ResponseContents :
          urls' = Deployed("returned", urls_of(content), content)
    /\ step' = "done"
    /\ UNCHANGED <<notExecuteVars, deployVars, remote_calls, executions>>

NextQuizDeploy ==
    \/ CreateScriptProject
    \/ UploadScriptContent
    \/ VerifyInDrive
    \/ BeginExecution
    \/ RunReturnsResponse
    \/ RunReturnsError
    \/ RunRaisesHttpError
    \/ RunRaisesException
    \/ EndExecution
    \/ AllExecutionsFailed
    \/ ExtractFormUrls

SpecQuizDeploy == InitQuizDeploy /\ [][NextQuizDeploy]_vars

(***************************************************************************)
(* Claims about deploy_and_execute_quiz.                                   *)
(***************************************************************************)
\* The positions of the calls of one kind among the remote calls.
CallsOf(call) == {i \in 1..Len(remote_calls) : remote_calls[i].call = call}

\* The run calls made so far, those of the call in progress included.
RunCallsMade == Cardinality(CallsOf("run")) + Len(run_calls)

\* C22: the remote steps happen in the order create, upload, execute: the
\* content is uploaded only after a creation that gave an id, the function
\* is run only after an upload that succeeded, the second and third
\* execute_function calls (dev mode) are made only after a call that
\* returned None, and at most 2 + 2 + 1 = 5 run calls are made.
C22_CreateUploadExecuteInOrder ==
    /\ \A i \in CallsOf("updateContent") :
          \E j \in 1..(i - 1) : remote_calls[j] = RemoteCall("create", "id")
    /\ (CallsOf("run") # {} \/ run_calls # <<>> \/ executions # <<>>) =>
          \E j \in 1..Len(remote_calls) :
             /\ remote_calls[j] = RemoteCall("updateContent", "ok")
             /\ \A i \in CallsOf("run") : j < i
    /\ Cardinality(CallsOf("create")) <= 1
    /\ Cardinality(CallsOf("updateContent")) <= 1
    /\ Len(executions) <= 3
    /\ \A k \in 1..Len(executions) :
          /\ executions[k].dev_mode = (k > 1)
          /\ Len(executions[k].run_calls) <= (IF k < 3 THEN 2 ELSE 1)
          /\ k > 1 => executions[k - 1].value = NoneValue
    /\ (returned # NoExecution /\ executions # <<>>) =>
          executions[Len(executions)].value = NoneValue
    /\ RunCallsMade <= 5

\* C22 witness: after creation and upload, the first two execute_function
\* calls used up their two run calls each and the run call of the third
\* gave a response: five run calls, the last one successful.
C22_Witness ==
    /\ step = "done"
    /\ Len(executions) = 3
    /\ Cardinality(CallsOf("run")) = 5
    /\ remote_calls[1] = RemoteCall("create", "id")
    /\ remote_calls[2] = RemoteCall("updateContent", "ok")
    /\ executions[3].value # NoneValue
    /\ urls.value[1] \notin {"None", ""}

\* C23: deploy_and_execute_quiz ends by returning, never by raising; the
\* pair it returns is two non-empty URLs, the publishedUrl and editUrl of
\* the result of the execution response, or (None, None); never one URL
\* with None or an empty string.
C23_BothUrlsOrNone ==
    /\ urls.how \in {"running", "returned"}
    /\ step = "done" =>
          /\ urls.how = "returned"
          /\ \/ urls.value = <<"None", "None">>
             \/ /\ urls.value[1] \notin {"None", ""}
                /\ urls.value[2] \notin {"None", ""}
                /\ urls.execution_response.result = "object"
                /\ urls.value[1] = urls.execution_response.publishedUrl
                /\ urls.value[2] = urls.execution_response.editUrl

\* C23 witness: the result of the response had a published URL and an
\* empty edit URL, and the call returned (None, None).
C23_Witness ==
    /\ step = "done"
    /\ urls.execution_response.result = "object"
    /\ urls.execution_response.publishedUrl = "https://docs.google.com/forms/d/e/1/viewform"
    /\ urls.execution_response.editUrl = ""
    /\ urls.value = <<"None", "None">>

(***************************************************************************)
(* Runs of the deployment CLIs (deploy_batch.py, gas_deployer_batch.py).   *)
(* A run is main(): it parses the arguments, lists when --list-files is    *)
(* given, and calls deploy_all_quizzes, which globs, filters by language,  *)
(* authenticates and calls the deployer with the pattern.  The names are   *)
(* taken relative to /tmp.  The class GoogleAppsScriptDeployer defines no  *)
(* deploy_batch_quiz_scripts, so that call raises AttributeError.          *)
(***************************************************************************)
MaxTmpVariants == 1   \* variants per language among the files in /tmp

DeployTools == {"deploy_batch", "gas_deployer_batch"}

\* The default --pattern of deploy_batch.py and of gas_deployer_batch.py.
DeployPatterns ==
    {<<"A", "I", " ", "F", "u", "n", "d", "a", "m", "e", "n", "t", "a", "l", "s">>
        \o <<" ", "|", " ", "*", " ", "|", " ", "V", "a", "r", "i", "a", "n", "t", " ", "*", ".", "g", "s">>,
     <<"A", "I", " ", "C", "i", "t", "i", "z", "e", "n">>
        \o <<" ", "|", " ", "*", " ", "|", " ", "V", "a", "r", "i", "a", "n", "t", " ", "*", ".", "g", "s">>}

TmpNames ==
    {quiz_filename(l, n) : l \in SupportedLanguages, n \in 1..MaxTmpVariants}
    \cup {<<"q", "u", "i", "z", "_", "u", "r", "l", "s", "_", "a", "l", "l", ".", "t", "x", "t">>}

DeployArguments(tool, pattern, language, list_files) ==
    [tool |-> tool, pattern |-> pattern, language |-> language, list_files |-> list_files]

\* sub in name
contains(name, sub) ==
    \E i \in 0..(Len(name) - Len(sub)) : SubSeq(name, i + 1, i + Len(sub)) = sub

\* [f for f in quiz_files if f"[{language}]" in f], when a language is given
language_filter(files, language) ==
    IF language = None THEN files
    ELSE {f \in files : contains(f, <<"[">> \o lang_chars(upper(language)) \o <<"]">>)}

\* What main returns to the shell after deploy_all_quizzes returned:
\* deploy_batch.py 0 or 1, gas_deployer_batch.py None, which is status 0.
exit_after(tool, deployed_quizzes) ==
    IF tool = "deploy_batch" /\ deployed_quizzes = <<>> THEN 1 ELSE 0

InitDeployCli ==
    /\ IdleLoad
    /\ rng = 0
    /\ IdleConvert
    /\ IdleAssemble
    /\ IdleBatch
    /\ IdleOther
    /\ IdleForm
    /\ IdleQuizDeploy
    /\ IdleMail
    /\ tmp_dir \in SUBSET TmpNames
    /\ cli = NoArgs
    /\ cli_pc = "shell"
    /\ cli_listed = NotListed
    /\ authenticated = 0
    /\ handed = <<>>
    /\ cli_exit = -1

notCliVars == <<coreVars, formVars, quizDeployVars, mailVars>>

\* main: args = parser.parse_args()
MainParseArgs ==
    /\ cli_pc = "shell"
    /\ cli = NoArgs
    /\ \E tool \in DeployTools, pattern \in DeployPatterns,
          language \in {None} \cup SupportedLanguages, list_files \in BOOLEAN :
          /\ cli' = DeployArguments(tool, pattern, language, list_files)
          /\ cli_pc' = IF list_files THEN "list" ELSE "deploy"
    /\ UNCHANGED <<notCliVars, tmp_dir, cli_listed, authenticated, handed, cli_exit>>

\* main, if args.list_files: the files are logged; deploy_batch.py returns
\* 0 then, gas_deployer_batch.py goes on to the deploy_all_quizzes call.
MainListQuizFiles ==
    /\ cli_pc = "list"
    /\ cli_listed' = Listing(cli.language,
                             language_filter(glob(tmp_dir, cli.pattern), cli.language))
    /\ IF cli.tool = "deploy_batch"
       THEN cli_pc' = "done" /\ cli_exit' = 0
       ELSE cli_pc' = "deploy" /\ UNCHANGED cli_exit
    /\ UNCHANGED <<notCliVars, tmp_dir, cli, authenticated, handed>>

\* deploy_all_quizzes up to the deployer: return [] when no file is left.
DeployAllQuizzes ==
    /\ cli_pc = "deploy"
    /\ LET quiz_files == language_filter(glob(tmp_dir, cli.pattern), cli.language)
       IN IF quiz_files = {}
          THEN cli_pc' = "done" /\ cli_exit' = exit_after(cli.tool, <<>>)
          ELSE cli_pc' = "authenticate" /\ UNCHANGED cli_exit
    /\ UNCHANGED <<notCliVars, tmp_dir, cli, cli_listed, authenticated, handed>>

\* if not deployer.authenticate_google(): return []
AuthenticateGoogle ==
    /\ cli_pc = "authenticate"
    /\ authenticated' = authenticated + 1
    /\ \E ok \in BOOLEAN :
          IF ok
          THEN cli_pc' = "hand" /\ UNCHANGED cli_exit
          ELSE cli_pc' = "done" /\ cli_exit' = exit_after(cli.tool, <<>>)
    /\ UNCHANGED <<notCliVars, tmp_dir, cli, cli_listed, handed>>

\* deployer.deploy_batch_quiz_scripts(pattern): the attribute look-up
\* raises AttributeError, which nothing catches: status 1.
DeployBatchQuizScripts ==
    /\ cli_pc = "hand"
    /\ handed' = Append(handed, cli.pattern)
    /\ cli_pc' = "done"
    /\ cli_exit' = 1
    /\ UNCHANGED <<notCliVars, tmp_dir, cli, cli_listed, authenticated>>

NextDeployCli ==
    \/ MainParseArgs
    \/ MainListQuizFiles
    \/ DeployAllQuizzes
    \/ AuthenticateGoogle
    \/ DeployBatchQuizScripts

SpecDeployCli == InitDeployCli /\ [][NextDeployCli]_vars

(***************************************************************************)
(* Claims about the deployment CLIs.                                       *)
(***************************************************************************)
\* C24: a run with --list-files lists the matching files and deploys
\* nothing: it makes no authenticate_google call and no deployer call.
C24_ListFilesDeploysNothing ==
    cli.list_files =>
       /\ authenticated = 0
       /\ handed = <<>>
       /\ cli_pc = "done" =>
             cli_listed.files = language_filter(glob(tmp_dir, cli.pattern), cli.language)

MaxRecipients == 3    \* longest recipients list

Addresses == {"ana.anic@example.com", "bob@example.com"}

QuizUrls == {"", "https://docs.google.com/forms/d/e/1/viewform"}

PassOutcomes == {"raises", "no_content", "sent", "not_sent"}

Attempt(email, outcome) == [email |-> email, outcome |-> outcome]

\* A loop that is left at the first recipient that was not sent to.
continues_after_success_only(outcome) == outcome = "sent"

\* Every branch of a pass (continue, fall through, except) goes on to the
\* next recipient.
continues_after(outcome) == TRUE

\* results[email] = value
set_item(dict, key, value) ==
    [k \in DOMAIN dict \cup {key} |-> IF k = key THEN value ELSE dict[k]]

InitNotify ==
    /\ IdleLoad
    /\ rng = 0
    /\ IdleConvert
    /\ IdleAssemble
    /\ IdleBatch
    /\ IdleOther
    /\ IdleForm
    /\ IdleQuizDeploy
    /\ IdleCli
    /\ recipients \in SeqsUpTo(Addresses, MaxRecipients)
    /\ quiz_url \in QuizUrls
    /\ results = <<>>
    /\ attempts = <<>>
    /\ notification = NotReturned

notMailVars == <<coreVars, formVars, quizDeployVars, cliVars>>

\* if not recipients: return {}    if not quiz_url: return {}
ReturnEmpty ==
    /\ notification = NotReturned
    /\ recipients = <<>> \/ quiz_url = ""
    /\ notification' = Returned(results)
    /\ UNCHANGED <<notMailVars, recipients, quiz_url, results, attempts>>

\* One pass of  for email in recipients.
ProcessRecipient ==
    /\ notification = NotReturned
    /\ recipients # <<>>
    /\ quiz_url # ""
    /\ Len(attempts) < Len(recipients)
    /\ LET email == recipients[Len(attempts) + 1]
       IN \E outcome \in PassOutcomes :
             /\ attempts' = Append(attempts, Attempt(email, outcome))
             /\ results' = set_item(results, email, outcome = "sent")
             /\ IF continues_after(outcome)
                THEN UNCHANGED notification
                ELSE notification' = Returned(results')
    /\ UNCHANGED <<notMailVars, recipients, quiz_url>>

\* return results
ReturnResults ==
    /\ notification = NotReturned
    /\ recipients # <<>>
    /\ quiz_url # ""
    /\ Len(attempts) = Len(recipients)
    /\ notification' = Returned(results)
    /\ UNCHANGED <<notMailVars, recipients, quiz_url, results, attempts>>

NextNotify == ReturnEmpty \/ ProcessRecipient \/ ReturnResults

SpecNotify == InitNotify /\ [][NextNotify]_vars

\* The last attempt made for an address.
LastAttempt(email) ==
    attempts[CHOOSE i \in 1..Len(attempts) :
                /\ attempts[i].email = email
                /\ \A j \in (i + 1)..Len(attempts) : attempts[j].email # email]

\* C26: with recipients and a quiz URL the call processes every recipient
\* in list order, whatever happened to the earlier ones, and returns a
\* dictionary whose keys are exactly the recipients (True for those the
\* mail was sent to); without recipients or without a URL it returns an
\* empty dictionary and processes nobody; it never raises.
C26_EveryRecipientAnswered ==
    /\ notification.how \in {"running", "returned"}
    /\ Len(attempts) <= Len(recipients)
    /\ \A i \in 1..Len(attempts) : attempts[i].email = recipients[i]
    /\ notification.how = "returned" =>
          IF recipients # <<>> /\ quiz_url # ""
          THEN /\ Len(attempts) = Len(recipients)
               /\ DOMAIN notification.value = {recipients[i] : i \in 1..Len(recipients)}
               /\ \A e \in DOMAIN notification.value :
                     notification.value[e] = (LastAttempt(e).outcome = "sent")
          ELSE /\ DOMAIN notification.value = {}
               /\ attempts = <<>>

\* C26 witness: of two recipients the first failed with an exception and
\* the second was sent to; the dictionary says so.
C26_Witness ==
    /\ notification.how = "returned"
    /\ Len(recipients) = 2
    /\ Len(attempts) = 2
    /\ recipients[1] # recipients[2]
    /\ attempts[1].outcome = "raises"
    /\ attempts[2].outcome = "sent"
    /\ notification.value[recipients[1]] = FALSE
    /\ notification.value[recipients[2]] = TRUE

====
